---- MODULE Spec2Model ----
(***************************************************************************)
(* Hotel reservation system: three JSON-backed stores (hotels, customers,  *)
(* reservations).  Every operation loads a whole store, changes the        *)
(* in-memory snapshot and writes the whole store back.                     *)
(*                                                                         *)
(* The state is the content of the three data files.  An operation is a    *)
(* function from the files it reads to its return value and the files      *)
(* afterwards; the actions apply these functions to the state.             *)
(***************************************************************************)
EXTENDS Integers, Sequences, FiniteSets, TLC

VARIABLES hotels_file, customers_file, reservations_file, procs

vars == <<hotels_file, customers_file, reservations_file, procs>>

----------------------------------------------------------------------------
(* Bounds of the model and the inputs the callers draw from.               *)

MaxRooms == 1
MaxLedgerRooms == 2

HotelIds == {"H1", "H2"}
CustomerIds == {"C1"}
ReservationIds == {"R1", "R2"}
LedgerIds == {"R1", "R2", "R3"}
HotelNames == {"Grand"}
Names == {"a", "b"}
Locations == {"NYC"}
Ratings == {"4.5"}
NonNumeric == {"abc"}
RatingInputs == Ratings \cup NonNumeric
ModNames == {"Grand", "Plaza"}
ModLocations == {"NYC", "LA"}
ModEmails == {"e@x", "f@x"}
Emails == {"e@x"}
Phones == {"555"}
\* int(total_rooms) accepts any integer, negative ones included
RoomInputs == -1..MaxRooms
LedgerRoomInputs == -1..MaxLedgerRooms
\* date texts, as the year, month and day fields of YYYY-MM-DD
D10 == <<2025, 1, 10>>
D15 == <<2025, 1, 15>>
DBad == <<2025, 2, 30>>
\* date texts by their year, month and day fields: ends of months, the 29th
\* of February in leap and other years, fields out of range and in the
\* wrong order
DateTexts ==
    {D10, D15, DBad, <<2024, 2, 29>>, <<2025, 2, 29>>, <<1900, 2, 29>>,
     <<2000, 2, 29>>, <<2024, 12, 31>>, <<2025, 1, 1>>, <<2025, 4, 31>>,
     <<2025, 4, 30>>, <<2025, 13, 1>>, <<2025, 0, 10>>, <<10, 1, 2025>>,
     <<0, 1, 1>>}
\* pairs offered to Reservation.create: good ones, one across a leap day,
\* same day, inverted, not a calendar date
StayPairs ==
    {<<D10, D15>>, <<<<2024, 2, 29>>, <<2025, 1, 1>>>>, <<<<2024, 12, 31>>, D10>>,
     <<D10, D10>>, <<D15, D10>>, <<DBad, D15>>, <<D10, <<2025, 4, 31>>>>}
\* (check_in, check_out): in order, same day, inverted, not a calendar date
DatePairs == {<<D10, D15>>, <<D10, D10>>, <<D15, D10>>, <<DBad, D15>>}

----------------------------------------------------------------------------
(* Python dicts as functions.                                              *)

EmptyMap == [k \in {} |-> k]

Put(m, key, val) == [k \in DOMAIN m \cup {key} |-> IF k = key THEN val ELSE m[k]]

Del(m, key) == [k \in DOMAIN m \ {key} |-> m[k]]

\* list.remove(x): removes the first occurrence of x
RECURSIVE ListRemove(_, _)
ListRemove(s, x) ==
    IF s = <<>> THEN <<>>
    ELSE IF Head(s) = x THEN Tail(s)
    ELSE <<Head(s)>> \o ListRemove(Tail(s), x)

InList(s, x) == \E i \in 1..Len(s) : s[i] = x

Count(s, x) == Cardinality({i \in 1..Len(s) : s[i] = x})

Min(a, b) == IF a <= b THEN a ELSE b

----------------------------------------------------------------------------
(* Hotel: record store.                                                    *)

\* a constructor that starts a hotel with no room available
HotelInitNoRooms(hotel_id, name, location, rating, total_rooms) ==
    [hotel_id |-> hotel_id, name |-> name, location |-> location,
     rating |-> rating, total_rooms |-> total_rooms,
     available_rooms |-> 0, reservations |-> <<>>]

HotelInit(hotel_id, name, location, rating, total_rooms) ==
    [hotel_id |-> hotel_id, name |-> name, location |-> location,
     rating |-> rating, total_rooms |-> total_rooms,
     available_rooms |-> total_rooms, reservations |-> <<>>]

\* a to_dict that writes available_rooms under total_rooms
HotelToDictSwapped(hotel) ==
    [hotel_id |-> hotel.hotel_id, name |-> hotel.name,
     location |-> hotel.location, rating |-> hotel.rating,
     total_rooms |-> hotel.available_rooms,
     available_rooms |-> hotel.available_rooms,
     reservations |-> hotel.reservations]

HotelToDict(hotel) ==
    [hotel_id |-> hotel.hotel_id, name |-> hotel.name,
     location |-> hotel.location, rating |-> hotel.rating,
     total_rooms |-> hotel.total_rooms,
     available_rooms |-> hotel.available_rooms,
     reservations |-> hotel.reservations]

\* float(rating): a rating is kept as its decimal text; the conversion
\* raises ValueError on a text that is not a number
CanFloat(v) == v \notin NonNumeric

\* from_dict returns None on KeyError (a required field is missing) and on
\* ValueError (the rating is not a number)
HotelRecordOk(data) ==
    /\ {"hotel_id", "name", "location", "rating", "total_rooms"} \subseteq DOMAIN data
    /\ CanFloat(data.rating)

HotelFromDict(data) ==
    LET hotel == HotelInit(data.hotel_id, data.name, data.location,
                           data.rating, data.total_rooms)
    IN [hotel EXCEPT
          !.available_rooms = IF "available_rooms" \in DOMAIN data
                                 THEN data.available_rooms
                                 ELSE hotel.total_rooms,
          !.reservations = IF "reservations" \in DOMAIN data
                              THEN data.reservations
                              ELSE <<>>]

HotelLoadAll(file) ==
    [k \in {x \in DOMAIN file : HotelRecordOk(file[x])} |-> HotelFromDict(file[k])]

HotelSaveAll(hotels) == [k \in DOMAIN hotels |-> HotelToDict(hotels[k])]

----------------------------------------------------------------------------
(* Hotel: operations, as functions from the file to the return value and   *)
(* the file afterwards.                                                    *)

Hotel_create(file, hotel_id, name, location, rating, total_rooms) ==
    LET hotels == HotelLoadAll(file) IN
    IF hotel_id \in DOMAIN hotels
       THEN [ret |-> "None", file |-> file]
    ELSE IF ~CanFloat(rating)
       THEN [ret |-> "None", file |-> file]
       ELSE [ret |-> "obj",
             file |-> HotelSaveAll(Put(hotels, hotel_id,
                        HotelInit(hotel_id, name, location, rating, total_rooms)))]

\* a delete that empties the store
Hotel_delete_all(file, hotel_id) ==
    LET hotels == HotelLoadAll(file) IN
    IF hotel_id \notin DOMAIN hotels
       THEN [ret |-> "False", file |-> file]
       ELSE [ret |-> "True", file |-> HotelSaveAll(EmptyMap)]

Hotel_delete(file, hotel_id) ==
    LET hotels == HotelLoadAll(file) IN
    IF hotel_id \notin DOMAIN hotels
       THEN [ret |-> "False", file |-> file]
       ELSE [ret |-> "True", file |-> HotelSaveAll(Del(hotels, hotel_id))]

Hotel_get(file, hotel_id) ==
    LET hotels == HotelLoadAll(file) IN
    IF hotel_id \in DOMAIN hotels THEN "obj" ELSE "None"

HotelAllowed == {"name", "location", "rating", "total_rooms"}

\* a setattr loop that sets every attribute named, allowed or not
SetAttrsAll(obj, kwargs, allowed) ==
    [f \in DOMAIN obj |-> IF f \in DOMAIN kwargs THEN kwargs[f] ELSE obj[f]]

\* the setattr loop over kwargs: allowed keys are set, the others only warned about
SetAttrs(obj, kwargs, allowed) ==
    [f \in DOMAIN obj |->
        IF f \in DOMAIN kwargs /\ f \in allowed THEN kwargs[f] ELSE obj[f]]

\* a modify that rewrites the one record inside the file as it was read
Hotel_modify_in_place(file, hotel_id, kwargs) ==
    LET hotels == HotelLoadAll(file) IN
    IF hotel_id \notin DOMAIN hotels
       THEN [ret |-> "False", file |-> file]
       ELSE [ret |-> "True",
             file |-> [file EXCEPT ![hotel_id] =
                          HotelToDict(SetAttrs(hotels[hotel_id], kwargs, HotelAllowed))]]

Hotel_modify(file, hotel_id, kwargs) ==
    LET hotels == HotelLoadAll(file) IN
    IF hotel_id \notin DOMAIN hotels
       THEN [ret |-> "False", file |-> file]
       ELSE [ret |-> "True",
             file |-> HotelSaveAll(
                        [hotels EXCEPT ![hotel_id] = SetAttrs(@, kwargs, HotelAllowed)])]

\* an availability test that lets a hotel with 0 rooms through
NoRoomsStrict(hotel) == hotel.available_rooms < 0

NoRooms(hotel) == hotel.available_rooms <= 0

\* a reserve_room that takes the room and does not record the id
Hotel_reserve_room_no_append(file, hotel_id, reservation_id) ==
    LET hotels == HotelLoadAll(file) IN
    IF hotel_id \notin DOMAIN hotels
       THEN [ret |-> "False", file |-> file]
    ELSE IF NoRooms(hotels[hotel_id])
       THEN [ret |-> "False", file |-> file]
    ELSE [ret |-> "True",
          file |-> HotelSaveAll(
             [hotels EXCEPT ![hotel_id].available_rooms = @ - 1])]

\* a reserve_room that records the id at every stored hotel
Hotel_reserve_room_everywhere(file, hotel_id, reservation_id) ==
    LET hotels == HotelLoadAll(file) IN
    IF hotel_id \notin DOMAIN hotels
       THEN [ret |-> "False", file |-> file]
    ELSE IF NoRooms(hotels[hotel_id])
       THEN [ret |-> "False", file |-> file]
    ELSE [ret |-> "True",
          file |-> HotelSaveAll(
             [h \in DOMAIN hotels |->
                [hotels[h] EXCEPT
                   !.available_rooms = IF h = hotel_id THEN @ - 1 ELSE @,
                   !.reservations = Append(@, reservation_id)]])]

Hotel_reserve_room(file, hotel_id, reservation_id) ==
    LET hotels == HotelLoadAll(file) IN
    IF hotel_id \notin DOMAIN hotels
       THEN [ret |-> "False", file |-> file]
    ELSE IF NoRooms(hotels[hotel_id])
       THEN [ret |-> "False", file |-> file]
    ELSE [ret |-> "True",
          file |-> HotelSaveAll(
             [hotels EXCEPT
                ![hotel_id].available_rooms = @ - 1,
                ![hotel_id].reservations = Append(@, reservation_id)])]

\* a release without the cap at total_rooms
ReleasedUnclamped(hotel) == hotel.available_rooms + 1

Released(hotel) == Min(hotel.available_rooms + 1, hotel.total_rooms)

\* a cancel that releases a room whether or not the id is recorded
Hotel_cancel_reservation_unchecked(file, hotel_id, reservation_id) ==
    LET hotels == HotelLoadAll(file) IN
    IF hotel_id \notin DOMAIN hotels
       THEN [ret |-> "False", file |-> file]
    ELSE [ret |-> "True",
          file |-> HotelSaveAll(
             [hotels EXCEPT
                ![hotel_id].reservations = ListRemove(@, reservation_id),
                ![hotel_id].available_rooms = Released(hotels[hotel_id])])]

\* a cancel_reservation that removes every occurrence of the id
Hotel_cancel_reservation_remove_all(file, hotel_id, reservation_id) ==
    LET hotels == HotelLoadAll(file) IN
    IF hotel_id \notin DOMAIN hotels
       THEN [ret |-> "False", file |-> file]
    ELSE IF ~InList(hotels[hotel_id].reservations, reservation_id)
       THEN [ret |-> "False", file |-> file]
    ELSE [ret |-> "True",
          file |-> HotelSaveAll(
             [hotels EXCEPT
                ![hotel_id].reservations =
                    SelectSeq(@, LAMBDA q : q # reservation_id),
                ![hotel_id].available_rooms = Released(hotels[hotel_id])])]

Hotel_cancel_reservation(file, hotel_id, reservation_id) ==
    LET hotels == HotelLoadAll(file) IN
    IF hotel_id \notin DOMAIN hotels
       THEN [ret |-> "False", file |-> file]
    ELSE IF ~InList(hotels[hotel_id].reservations, reservation_id)
       THEN [ret |-> "False", file |-> file]
    ELSE [ret |-> "True",
          file |-> HotelSaveAll(
             [hotels EXCEPT
                ![hotel_id].reservations = ListRemove(@, reservation_id),
                ![hotel_id].available_rooms = Released(hotels[hotel_id])])]

----------------------------------------------------------------------------
(* Customer: record store and operations.                                  *)

CustomerInit(customer_id, name, email, phone) ==
    [customer_id |-> customer_id, name |-> name, email |-> email, phone |-> phone]

CustomerToDict(customer) ==
    [customer_id |-> customer.customer_id, name |-> customer.name,
     email |-> customer.email, phone |-> customer.phone]

CustomerRecordOk(data) ==
    {"customer_id", "name", "email", "phone"} \subseteq DOMAIN data

CustomerFromDict(data) ==
    CustomerInit(data.customer_id, data.name, data.email, data.phone)

CustomerLoadAll(file) ==
    [k \in {x \in DOMAIN file : CustomerRecordOk(file[x])} |-> CustomerFromDict(file[k])]

CustomerSaveAll(customers) ==
    [k \in DOMAIN customers |-> CustomerToDict(customers[k])]

\* a create that replaces a stored customer
Customer_create_overwrite(file, customer_id, name, email, phone) ==
    LET customers == CustomerLoadAll(file) IN
    [ret |-> "obj",
     file |-> CustomerSaveAll(Put(customers, customer_id,
                CustomerInit(customer_id, name, email, phone)))]

Customer_create(file, customer_id, name, email, phone) ==
    LET customers == CustomerLoadAll(file) IN
    IF customer_id \in DOMAIN customers
       THEN [ret |-> "None", file |-> file]
       ELSE [ret |-> "obj",
             file |-> CustomerSaveAll(Put(customers, customer_id,
                        CustomerInit(customer_id, name, email, phone)))]

Customer_delete(file, customer_id) ==
    LET customers == CustomerLoadAll(file) IN
    IF customer_id \notin DOMAIN customers
       THEN [ret |-> "False", file |-> file]
       ELSE [ret |-> "True", file |-> CustomerSaveAll(Del(customers, customer_id))]

Customer_get(file, customer_id) ==
    LET customers == CustomerLoadAll(file) IN
    IF customer_id \in DOMAIN customers THEN "obj" ELSE "None"

CustomerAllowed == {"name", "email", "phone"}

Customer_modify(file, customer_id, kwargs) ==
    LET customers == CustomerLoadAll(file) IN
    IF customer_id \notin DOMAIN customers
       THEN [ret |-> "False", file |-> file]
       ELSE [ret |-> "True",
             file |-> CustomerSaveAll(
                [customers EXCEPT ![customer_id] = SetAttrs(@, kwargs, CustomerAllowed)])]

----------------------------------------------------------------------------
(* Reservation: record store, date validation and operations.              *)

ReservationInit(reservation_id, customer_id, hotel_id, check_in, check_out) ==
    [reservation_id |-> reservation_id, customer_id |-> customer_id,
     hotel_id |-> hotel_id, check_in |-> check_in, check_out |-> check_out,
     status |-> "active"]

ReservationToDict(res) ==
    [reservation_id |-> res.reservation_id, customer_id |-> res.customer_id,
     hotel_id |-> res.hotel_id, check_in |-> res.check_in,
     check_out |-> res.check_out, status |-> res.status]

ReservationRecordOk(data) ==
    {"reservation_id", "customer_id", "hotel_id", "check_in", "check_out"}
        \subseteq DOMAIN data

\* a from_dict that does not restore the stored status
ReservationFromDictNoStatus(data) ==
    ReservationInit(data.reservation_id, data.customer_id,
                    data.hotel_id, data.check_in, data.check_out)

ReservationFromDict(data) ==
    LET res == ReservationInit(data.reservation_id, data.customer_id,
                               data.hotel_id, data.check_in, data.check_out)
    IN [res EXCEPT !.status = IF "status" \in DOMAIN data THEN data.status
                                                          ELSE "active"]

ReservationLoadAll(file) ==
    [k \in {x \in DOMAIN file : ReservationRecordOk(file[x])} |->
        ReservationFromDict(file[k])]

ReservationSaveAll(reservations) ==
    [k \in DOMAIN reservations |-> ReservationToDict(reservations[k])]

IsLeap(y) == (y % 4 = 0 /\ y % 100 # 0) \/ y % 400 = 0

DaysInMonth(y, m) ==
    IF m = 2 THEN (IF IsLeap(y) THEN 29 ELSE 28)
    ELSE IF m \in {4, 6, 9, 11} THEN 30 ELSE 31

\* datetime.strptime(text, '%Y-%m-%d') raises ValueError unless the fields
\* name a calendar date
Parses(text) ==
    /\ text[1] \in 1..9999
    /\ text[2] \in 1..12
    /\ text[3] \in 1..DaysInMonth(text[1], text[2])

\* a comparison that lets the same day through
NotAfterStrict(date_out, date_in) ==
    \/ date_out[1] < date_in[1]
    \/ date_out[1] = date_in[1] /\ date_out[2] < date_in[2]
    \/ date_out[1] = date_in[1] /\ date_out[2] = date_in[2] /\ date_out[3] < date_in[3]

\* date_out <= date_in on parsed dates
NotAfter(date_out, date_in) ==
    \/ date_out[1] < date_in[1]
    \/ date_out[1] = date_in[1] /\ date_out[2] < date_in[2]
    \/ date_out[1] = date_in[1] /\ date_out[2] = date_in[2] /\ date_out[3] <= date_in[3]

\* TRUE when validate_dates returns the parsed pair, FALSE when (None, None)
validate_dates(check_in, check_out) ==
    IF ~(Parses(check_in) /\ Parses(check_out)) THEN FALSE
    ELSE IF NotAfter(check_out, check_in) THEN FALSE
    ELSE TRUE

Result(ret, hf, cf, rf) ==
    [ret |-> ret, hotels_file |-> hf, customers_file |-> cf, reservations_file |-> rf]

\* a create that reserves the room before it looks the customer up
Reservation_create_reserve_first(hf, cf, rf, reservation_id, customer_id, hotel_id, check_in, check_out) ==
    IF ~validate_dates(check_in, check_out) THEN Result("None", hf, cf, rf)
    ELSE LET reservations == ReservationLoadAll(rf) IN
    IF reservation_id \in DOMAIN reservations THEN Result("None", hf, cf, rf)
    ELSE LET room == Hotel_reserve_room(hf, hotel_id, reservation_id) IN
    IF room.ret = "False" THEN Result("None", room.file, cf, rf)
    ELSE IF Customer_get(cf, customer_id) = "None"
       THEN Result("None", room.file, cf, rf)
    ELSE Result("obj", room.file, cf,
                ReservationSaveAll(
                    Put(reservations, reservation_id,
                        ReservationInit(reservation_id, customer_id, hotel_id,
                                        check_in, check_out))))

\* a create that never puts the new record into the loaded collection
Reservation_create_unsaved(hf, cf, rf, reservation_id, customer_id, hotel_id, check_in, check_out) ==
    IF ~validate_dates(check_in, check_out) THEN Result("None", hf, cf, rf)
    ELSE LET reservations == ReservationLoadAll(rf) IN
    IF reservation_id \in DOMAIN reservations THEN Result("None", hf, cf, rf)
    ELSE IF Customer_get(cf, customer_id) = "None" THEN Result("None", hf, cf, rf)
    ELSE LET room == Hotel_reserve_room(hf, hotel_id, reservation_id) IN
    IF room.ret = "False" THEN Result("None", room.file, cf, rf)
    ELSE Result("obj", room.file, cf, ReservationSaveAll(reservations))

\* a create that does not look for the id among the stored reservations
Reservation_create_no_dup_check(hf, cf, rf, reservation_id, customer_id, hotel_id, check_in, check_out) ==
    IF ~validate_dates(check_in, check_out) THEN Result("None", hf, cf, rf)
    ELSE LET reservations == ReservationLoadAll(rf) IN
    IF Customer_get(cf, customer_id) = "None" THEN Result("None", hf, cf, rf)
    ELSE LET room == Hotel_reserve_room(hf, hotel_id, reservation_id) IN
    IF room.ret = "False" THEN Result("None", room.file, cf, rf)
    ELSE Result("obj", room.file, cf,
                ReservationSaveAll(
                    Put(reservations, reservation_id,
                        ReservationInit(reservation_id, customer_id, hotel_id,
                                        check_in, check_out))))

Reservation_create(hf, cf, rf, reservation_id, customer_id, hotel_id, check_in, check_out) ==
    IF ~validate_dates(check_in, check_out) THEN Result("None", hf, cf, rf)
    ELSE LET reservations == ReservationLoadAll(rf) IN
    IF reservation_id \in DOMAIN reservations THEN Result("None", hf, cf, rf)
    ELSE IF Customer_get(cf, customer_id) = "None" THEN Result("None", hf, cf, rf)
    ELSE LET room == Hotel_reserve_room(hf, hotel_id, reservation_id) IN
    IF room.ret = "False" THEN Result("None", room.file, cf, rf)
    ELSE Result("obj", room.file, cf,
                ReservationSaveAll(
                    Put(reservations, reservation_id,
                        ReservationInit(reservation_id, customer_id, hotel_id,
                                        check_in, check_out))))

\* a status test that misspells the status it looks for
AlreadyCancelledTypo(res) == res.status = "canceled"

AlreadyCancelled(res) == res.status = "cancelled"

\* a cancel that flips the status without releasing the room
Reservation_cancel_no_release(hf, cf, rf, reservation_id) ==
    LET reservations == ReservationLoadAll(rf) IN
    IF reservation_id \notin DOMAIN reservations THEN Result("False", hf, cf, rf)
    ELSE IF AlreadyCancelled(reservations[reservation_id])
       THEN Result("False", hf, cf, rf)
    ELSE Result("True", hf, cf,
                ReservationSaveAll(
                    [reservations EXCEPT ![reservation_id].status = "cancelled"]))

\* a cancel that gives up when the hotel does not release the room
Reservation_cancel_strict(hf, cf, rf, reservation_id) ==
    LET reservations == ReservationLoadAll(rf) IN
    IF reservation_id \notin DOMAIN reservations THEN Result("False", hf, cf, rf)
    ELSE IF AlreadyCancelled(reservations[reservation_id])
       THEN Result("False", hf, cf, rf)
    ELSE LET room == Hotel_cancel_reservation(
                        hf, reservations[reservation_id].hotel_id, reservation_id)
         IN IF room.ret = "False" THEN Result("False", hf, cf, rf)
            ELSE Result("True", room.file, cf,
                        ReservationSaveAll(
                            [reservations EXCEPT ![reservation_id].status = "cancelled"]))

\* a cancel that removes the record instead of marking it
Reservation_cancel_remove(hf, cf, rf, reservation_id) ==
    LET reservations == ReservationLoadAll(rf) IN
    IF reservation_id \notin DOMAIN reservations THEN Result("False", hf, cf, rf)
    ELSE IF AlreadyCancelled(reservations[reservation_id])
       THEN Result("False", hf, cf, rf)
    ELSE LET room == Hotel_cancel_reservation(
                        hf, reservations[reservation_id].hotel_id, reservation_id)
         IN Result("True", room.file, cf,
                   ReservationSaveAll(Del(reservations, reservation_id)))

Reservation_cancel(hf, cf, rf, reservation_id) ==
    LET reservations == ReservationLoadAll(rf) IN
    IF reservation_id \notin DOMAIN reservations THEN Result("False", hf, cf, rf)
    ELSE IF AlreadyCancelled(reservations[reservation_id])
       THEN Result("False", hf, cf, rf)
    ELSE LET room == Hotel_cancel_reservation(
                        hf, reservations[reservation_id].hotel_id, reservation_id)
         IN Result("True", room.file, cf,
                   ReservationSaveAll(
                       [reservations EXCEPT ![reservation_id].status = "cancelled"]))

Reservation_get(rf, reservation_id) ==
    LET reservations == ReservationLoadAll(rf) IN
    IF reservation_id \in DOMAIN reservations THEN "obj" ELSE "None"

----------------------------------------------------------------------------
(* Keyword arguments of modify, as main.py passes them: one name with its  *)
(* value, or none.  available_rooms is a name a caller may try although    *)
(* modify does not accept it; the value tried is one no hotel has.         *)

HotelKwargs ==
    {EmptyMap}
    \cup {[k \in {"name"} |-> v] : v \in HotelNames}
    \cup {[k \in {"location"} |-> v] : v \in Locations}
    \cup {[k \in {"rating"} |-> v] : v \in Ratings}
    \cup {[k \in {"total_rooms"} |-> v] : v \in RoomInputs}
    \cup {[k \in {"available_rooms"} |-> MaxRooms + 1]}

CustomerKwargs ==
    {EmptyMap}
    \cup {[k \in {"name"} |-> v] : v \in Names}
    \cup {[k \in {"email"} |-> v] : v \in Emails}
    \cup {[k \in {"phone"} |-> v] : v \in Phones}
    \cup {[k \in {"customer_id"} |-> v] : v \in CustomerIds}

----------------------------------------------------------------------------
(* The operations as steps of the system.                                  *)

----------------------------------------------------------------------------
(* Storage faults. io names, for each store, the outcome of the read and   *)
(* of the write that an operation performs: hr, hw for the hotel file, cr, *)
(* cw for the customer file, rr, rw for the reservation file. A failed     *)
(* read (OSError or JSONDecodeError) makes load_all return {}, which is    *)
(* what it returns for an absent file, so the operation computes what it   *)
(* computes on an empty store. A failed write (OSError from open) leaves   *)
(* the file as it was. The empty content also stands for the absent file,  *)
(* which load_all does not open, so a read fails only on stored content.   *)

IoPoints == {"hr", "hw", "cr", "cw", "rr", "rw"}

Io(failing) == [k \in IoPoints |-> IF k \in failing THEN "fail" ELSE "ok"]

NoFault == Io({})

IoCases == {Io(f) : f \in {{}} \cup {{k} : k \in IoPoints}}

Seen(file, read) == IF read = "fail" /\ file # EmptyMap THEN EmptyMap ELSE file

\* the file after an operation that read seen and computed written: no
\* save_all call when the two are equal, a save_all that raised OSError
\* when write is "fail"
Kept(file, seen, written, write) ==
    IF written = seen \/ write = "fail" THEN file ELSE written

\* the return value of an operation that read seen and answered x, and the
\* file after it
Outcome(file, seen, x, write) ==
    [ret |-> x.ret, file |-> Kept(file, seen, x.file, write)]

Hotel_create_io(io, file, hotel_id, name, location, rating, total_rooms) ==
    LET seen == Seen(file, io.hr)
    IN Outcome(file, seen, Hotel_create(seen, hotel_id, name, location, rating, total_rooms), io.hw)

Hotel_delete_io(io, file, hotel_id) ==
    LET seen == Seen(file, io.hr)
    IN Outcome(file, seen, Hotel_delete(seen, hotel_id), io.hw)

Hotel_modify_io(io, file, hotel_id, kwargs) ==
    LET seen == Seen(file, io.hr)
    IN Outcome(file, seen, Hotel_modify(seen, hotel_id, kwargs), io.hw)

Hotel_reserve_room_io(io, file, hotel_id, reservation_id) ==
    LET seen == Seen(file, io.hr)
    IN Outcome(file, seen, Hotel_reserve_room(seen, hotel_id, reservation_id), io.hw)

Hotel_cancel_reservation_io(io, file, hotel_id, reservation_id) ==
    LET seen == Seen(file, io.hr)
    IN Outcome(file, seen, Hotel_cancel_reservation(seen, hotel_id, reservation_id), io.hw)

Customer_create_io(io, file, customer_id, name, email, phone) ==
    LET seen == Seen(file, io.cr)
    IN Outcome(file, seen, Customer_create(seen, customer_id, name, email, phone), io.cw)

Customer_delete_io(io, file, customer_id) ==
    LET seen == Seen(file, io.cr)
    IN Outcome(file, seen, Customer_delete(seen, customer_id), io.cw)

Customer_modify_io(io, file, customer_id, kwargs) ==
    LET seen == Seen(file, io.cr)
    IN Outcome(file, seen, Customer_modify(seen, customer_id, kwargs), io.cw)

\* a create that undoes the room and answers None when its own save fails
Reservation_create_io_rollback(io, hf, cf, rf, reservation_id, customer_id, hotel_id, check_in, check_out) ==
    LET sh == Seen(hf, io.hr)
        sc == Seen(cf, io.cr)
        sr == Seen(rf, io.rr)
        x == Reservation_create(sh, sc, sr, reservation_id, customer_id, hotel_id,
                                check_in, check_out)
    IN IF x.ret = "obj" /\ io.rw = "fail"
          THEN Result("None", hf, cf, rf)
          ELSE Result(x.ret, Kept(hf, sh, x.hotels_file, io.hw), cf,
                      Kept(rf, sr, x.reservations_file, io.rw))

Reservation_create_io(io, hf, cf, rf, reservation_id, customer_id, hotel_id, check_in, check_out) ==
    LET sh == Seen(hf, io.hr)
        sc == Seen(cf, io.cr)
        sr == Seen(rf, io.rr)
        x == Reservation_create(sh, sc, sr, reservation_id, customer_id, hotel_id,
                                check_in, check_out)
    IN Result(x.ret, Kept(hf, sh, x.hotels_file, io.hw), cf,
              Kept(rf, sr, x.reservations_file, io.rw))

Reservation_cancel_io(io, hf, cf, rf, reservation_id) ==
    LET sh == Seen(hf, io.hr)
        sr == Seen(rf, io.rr)
        x == Reservation_cancel(sh, cf, sr, reservation_id)
    IN Result(x.ret, Kept(hf, sh, x.hotels_file, io.hw), cf,
              Kept(rf, sr, x.reservations_file, io.rw))

----------------------------------------------------------------------------
(* The file as load_all finds it. kind says what is on disk: no file, a    *)
(* file that open cannot read (OSError), bytes that are not UTF-8 (the     *)
(* read inside json.load raises UnicodeDecodeError), text that is not JSON *)
(* (JSONDecodeError), JSON that is not an object (raw.items() raises       *)
(* AttributeError), or a JSON object, whose records are the file content.  *)
(* load_all catches JSONDecodeError and OSError only.                      *)

FileKinds == {"absent", "unreadable", "not_utf8", "not_json", "not_object", "object"}

Uncaught == {"not_utf8", "not_object"}

HotelLoadAllOf(kind, file) ==
    [raised |-> kind \in Uncaught,
     value |-> IF kind = "object" THEN HotelLoadAll(file) ELSE EmptyMap]

CustomerLoadAllOf(kind, file) ==
    [raised |-> kind \in Uncaught,
     value |-> IF kind = "object" THEN CustomerLoadAll(file) ELSE EmptyMap]

ReservationLoadAllOf(kind, file) ==
    [raised |-> kind \in Uncaught,
     value |-> IF kind = "object" THEN ReservationLoadAll(file) ELSE EmptyMap]

\* display: get, then the error line and False, or the fields and True
Hotel_display(file, hotel_id) ==
    IF Hotel_get(file, hotel_id) = "None" THEN "False" ELSE "True"

Customer_display(file, customer_id) ==
    IF Customer_get(file, customer_id) = "None" THEN "False" ELSE "True"

Reservation_display(rf, reservation_id) ==
    IF Reservation_get(rf, reservation_id) = "None" THEN "False" ELSE "True"

----------------------------------------------------------------------------
(* Two processes on the same files. An operation of a process is a run of  *)
(* file reads and writes; procs.run[p] holds where process p is in its      *)
(* operation and what it has loaded, procs.overlapped whether a process    *)
(* ever took a step while the other one was inside an operation, and       *)
(* procs.committed the operations that returned success.                   *)

Procs == {"P1", "P2"}

Idle == [pc |-> "idle"]

IdleProcs == [run |-> [p \in Procs |-> Idle], overlapped |-> FALSE, committed |-> {}]

----------------------------------------------------------------------------
(* Actions: one per public operation.                                      *)

HotelCreate(hotel_id, name, location, rating, total_rooms) ==
    /\ hotels_file' =
         Hotel_create(hotels_file, hotel_id, name, location, rating, total_rooms).file
    /\ UNCHANGED <<customers_file, reservations_file, procs>>

\* a delete that also removes the reservations made at the hotel
HotelDeleteCascade(hotel_id) ==
    /\ hotels_file' = Hotel_delete(hotels_file, hotel_id).file
    /\ reservations_file' =
         LET res == ReservationLoadAll(reservations_file)
             kept == {r \in DOMAIN res : res[r].hotel_id # hotel_id}
         IN ReservationSaveAll([r \in kept |-> res[r]])
    /\ UNCHANGED <<customers_file, procs>>

HotelDelete(hotel_id) ==
    /\ hotels_file' = Hotel_delete(hotels_file, hotel_id).file
    /\ UNCHANGED <<customers_file, reservations_file, procs>>

HotelModify(hotel_id, kwargs) ==
    /\ hotels_file' = Hotel_modify(hotels_file, hotel_id, kwargs).file
    /\ UNCHANGED <<customers_file, reservations_file, procs>>

HotelReserveRoom(hotel_id, reservation_id) ==
    /\ hotels_file' = Hotel_reserve_room(hotels_file, hotel_id, reservation_id).file
    /\ UNCHANGED <<customers_file, reservations_file, procs>>

HotelCancelReservation(hotel_id, reservation_id) ==
    /\ hotels_file' =
         Hotel_cancel_reservation(hotels_file, hotel_id, reservation_id).file
    /\ UNCHANGED <<customers_file, reservations_file, procs>>

CustomerCreate(customer_id, name, email, phone) ==
    /\ customers_file' =
         Customer_create(customers_file, customer_id, name, email, phone).file
    /\ UNCHANGED <<hotels_file, reservations_file, procs>>

\* a delete that also cancels the reservations of the customer
CustomerDeleteCascade(customer_id) ==
    /\ customers_file' = Customer_delete(customers_file, customer_id).file
    /\ reservations_file' =
         LET res == ReservationLoadAll(reservations_file)
         IN ReservationSaveAll(
              [r \in DOMAIN res |->
                 IF res[r].customer_id = customer_id
                    THEN [res[r] EXCEPT !.status = "cancelled"]
                    ELSE res[r]])
    /\ UNCHANGED <<hotels_file, procs>>

CustomerDelete(customer_id) ==
    /\ customers_file' = Customer_delete(customers_file, customer_id).file
    /\ UNCHANGED <<hotels_file, reservations_file, procs>>

CustomerModify(customer_id, kwargs) ==
    /\ customers_file' = Customer_modify(customers_file, customer_id, kwargs).file
    /\ UNCHANGED <<hotels_file, reservations_file, procs>>

ResCreate(reservation_id, customer_id, hotel_id, check_in, check_out) ==
    Reservation_create(hotels_file, customers_file, reservations_file,
                       reservation_id, customer_id, hotel_id, check_in, check_out)

ReservationCreate(reservation_id, customer_id, hotel_id, check_in, check_out) ==
    LET r == ResCreate(reservation_id, customer_id, hotel_id, check_in, check_out)
    IN /\ hotels_file' = r.hotels_file
       /\ customers_file' = r.customers_file
       /\ reservations_file' = r.reservations_file
       /\ UNCHANGED procs

ResCancel(reservation_id) ==
    Reservation_cancel(hotels_file, customers_file, reservations_file, reservation_id)

ReservationCancel(reservation_id) ==
    LET r == ResCancel(reservation_id)
    IN /\ hotels_file' = r.hotels_file
       /\ customers_file' = r.customers_file
       /\ reservations_file' = r.reservations_file
       /\ UNCHANGED procs

\* a get that writes back what it loaded
HotelGetResaving(hotel_id) ==
    /\ hotels_file' = HotelSaveAll(HotelLoadAll(hotels_file))
    /\ UNCHANGED <<customers_file, reservations_file, procs>>

\* the reads: they call load_all and write nothing
HotelGet(hotel_id) ==
    /\ Hotel_get(hotels_file, hotel_id) \in {"obj", "None"}
    /\ UNCHANGED vars

HotelDisplay(hotel_id) ==
    /\ Hotel_display(hotels_file, hotel_id) \in {"True", "False"}
    /\ UNCHANGED vars

CustomerGet(customer_id) ==
    /\ Customer_get(customers_file, customer_id) \in {"obj", "None"}
    /\ UNCHANGED vars

CustomerDisplay(customer_id) ==
    /\ Customer_display(customers_file, customer_id) \in {"True", "False"}
    /\ UNCHANGED vars

ReservationGet(reservation_id) ==
    /\ Reservation_get(reservations_file, reservation_id) \in {"obj", "None"}
    /\ UNCHANGED vars

ReservationDisplay(reservation_id) ==
    /\ Reservation_display(reservations_file, reservation_id) \in {"True", "False"}
    /\ UNCHANGED vars

----------------------------------------------------------------------------
(* Specifications.                                                         *)

Init ==
    /\ hotels_file = EmptyMap
    /\ customers_file = EmptyMap
    /\ reservations_file = EmptyMap
    /\ procs = IdleProcs

HotelCreateStep ==
    \E h \in HotelIds, n \in HotelNames, l \in Locations, g \in Ratings, t \in RoomInputs :
        HotelCreate(h, n, l, g, t)

HotelDeleteStep == \E h \in HotelIds : HotelDelete(h)

HotelModifyStep == \E h \in HotelIds, kw \in HotelKwargs : HotelModify(h, kw)

HotelReserveRoomStep ==
    \E h \in HotelIds, r \in ReservationIds : HotelReserveRoom(h, r)

HotelCancelReservationStep ==
    \E h \in HotelIds, r \in ReservationIds : HotelCancelReservation(h, r)

CustomerCreateStep ==
    \E c \in CustomerIds, n \in Names, e \in Emails, p \in Phones :
        CustomerCreate(c, n, e, p)

CustomerDeleteStep == \E c \in CustomerIds : CustomerDelete(c)

CustomerModifyStep ==
    \E c \in CustomerIds, kw \in CustomerKwargs : CustomerModify(c, kw)

ReservationCreateStep ==
    \E r \in ReservationIds, c \in CustomerIds, h \in HotelIds, d \in DatePairs :
        ReservationCreate(r, c, h, d[1], d[2])

ReservationCancelStep == \E r \in ReservationIds : ReservationCancel(r)

\* every public operation, in any order
Next ==
    \/ HotelCreateStep
    \/ HotelDeleteStep
    \/ HotelModifyStep
    \/ HotelReserveRoomStep
    \/ HotelCancelReservationStep
    \/ CustomerCreateStep
    \/ CustomerDeleteStep
    \/ CustomerModifyStep
    \/ ReservationCreateStep
    \/ ReservationCancelStep

Spec == Init /\ [][Next]_vars

\* every public operation except the two deletes
NextNoDelete ==
    \/ HotelCreateStep
    \/ HotelModifyStep
    \/ HotelReserveRoomStep
    \/ HotelCancelReservationStep
    \/ CustomerCreateStep
    \/ CustomerModifyStep
    \/ ReservationCreateStep
    \/ ReservationCancelStep

SpecNoDelete == Init /\ [][NextNoDelete]_vars

LedgerCreateStep ==
    \E h \in HotelIds, n \in HotelNames, l \in Locations, g \in Ratings,
       t \in LedgerRoomInputs :
        HotelCreate(h, n, l, g, t)

LedgerReserveStep == \E h \in HotelIds, r \in LedgerIds : HotelReserveRoom(h, r)

LedgerCancelStep == \E h \in HotelIds, r \in LedgerIds : HotelCancelReservation(h, r)

\* hotels that are created and then only reserved against and released
NextLedger ==
    \/ LedgerCreateStep
    \/ LedgerReserveStep
    \/ LedgerCancelStep

SpecLedger == Init /\ [][NextLedger]_vars

HotelDriftStep ==
    \E h \in HotelIds, t \in LedgerRoomInputs :
        HotelModify(h, [k \in {"total_rooms"} |-> t])

\* the five hotel operations alone, with ids repeated in a list and with
\* total_rooms changed under the rooms taken
NextHotel ==
    \/ LedgerCreateStep
    \/ HotelDeleteStep
    \/ HotelDriftStep
    \/ LedgerReserveStep
    \/ LedgerCancelStep

SpecHotel == Init /\ [][NextHotel]_vars

FaultyHotelCreateStep ==
    \E io \in IoCases, h \in HotelIds, t \in 0..MaxRooms :
        /\ hotels_file' = Hotel_create_io(io, hotels_file, h, "Grand", "NYC", "4.5", t).file
        /\ UNCHANGED <<customers_file, reservations_file, procs>>

FaultyHotelDeleteStep ==
    \E io \in IoCases, h \in HotelIds :
        /\ hotels_file' = Hotel_delete_io(io, hotels_file, h).file
        /\ UNCHANGED <<customers_file, reservations_file, procs>>

FaultyHotelReserveRoomStep ==
    \E io \in IoCases, h \in HotelIds, r \in ReservationIds :
        /\ hotels_file' = Hotel_reserve_room_io(io, hotels_file, h, r).file
        /\ UNCHANGED <<customers_file, reservations_file, procs>>

FaultyHotelCancelReservationStep ==
    \E io \in IoCases, h \in HotelIds, r \in ReservationIds :
        /\ hotels_file' = Hotel_cancel_reservation_io(io, hotels_file, h, r).file
        /\ UNCHANGED <<customers_file, reservations_file, procs>>

FaultyCustomerCreateStep ==
    \E io \in IoCases, c \in CustomerIds, n \in Names :
        /\ customers_file' = Customer_create_io(io, customers_file, c, n, "e@x", "555").file
        /\ UNCHANGED <<hotels_file, reservations_file, procs>>

FaultyReservationCreateStep ==
    \E io \in IoCases, r \in ReservationIds, c \in CustomerIds, h \in HotelIds :
        LET x == Reservation_create_io(io, hotels_file, customers_file,
                                       reservations_file, r, c, h, D10, D15)
        IN /\ hotels_file' = x.hotels_file
           /\ customers_file' = x.customers_file
           /\ reservations_file' = x.reservations_file
           /\ UNCHANGED procs

FaultyReservationCancelStep ==
    \E io \in IoCases, r \in ReservationIds :
        LET x == Reservation_cancel_io(io, hotels_file, customers_file,
                                       reservations_file, r)
        IN /\ hotels_file' = x.hotels_file
           /\ customers_file' = x.customers_file
           /\ reservations_file' = x.reservations_file
           /\ UNCHANGED procs

\* the operations under at most one failing read or write each
NextFaults ==
    \/ FaultyHotelCreateStep
    \/ FaultyHotelDeleteStep
    \/ FaultyHotelReserveRoomStep
    \/ FaultyHotelCancelReservationStep
    \/ FaultyCustomerCreateStep
    \/ FaultyReservationCreateStep
    \/ FaultyReservationCancelStep

SpecFaults == Init /\ [][NextFaults]_vars

\* collections of objects whose fields have their stored types, as save_all
\* can be handed them
HotelObjects(h) ==
    {[hotel_id |-> h, name |-> "Grand", location |-> "NYC", rating |-> g,
      total_rooms |-> t, available_rooms |-> a, reservations |-> l] :
        g \in Ratings, t \in 0..MaxRooms, a \in 0..MaxRooms,
        l \in {<<>>, <<"R1", "R2">>}}

CustomerObjects(c) ==
    {[customer_id |-> c, name |-> n, email |-> "e@x", phone |-> "555"] : n \in Names}

ReservationObjects(r) ==
    {[reservation_id |-> r, customer_id |-> "C1", hotel_id |-> "H1",
      check_in |-> D10, check_out |-> D15, status |-> st] :
        st \in {"active", "cancelled"}}

WellFormedHotels ==
    UNION {{X \in [S -> UNION {HotelObjects(i) : i \in S}] :
               \A i \in S : X[i] \in HotelObjects(i)} : S \in SUBSET HotelIds}

WellFormedCustomers ==
    UNION {{X \in [S -> UNION {CustomerObjects(i) : i \in S}] :
               \A i \in S : X[i] \in CustomerObjects(i)} : S \in SUBSET CustomerIds}

WellFormedReservations ==
    UNION {{X \in [S -> UNION {ReservationObjects(i) : i \in S}] :
               \A i \in S : X[i] \in ReservationObjects(i)} : S \in SUBSET ReservationIds}

SaveHotelsStep ==
    \E X \in WellFormedHotels :
        /\ hotels_file' = HotelSaveAll(X)
        /\ UNCHANGED <<customers_file, reservations_file, procs>>

SaveCustomersStep ==
    \E X \in WellFormedCustomers :
        /\ customers_file' = CustomerSaveAll(X)
        /\ UNCHANGED <<hotels_file, reservations_file, procs>>

SaveReservationsStep ==
    \E X \in WellFormedReservations :
        /\ reservations_file' = ReservationSaveAll(X)
        /\ UNCHANGED <<hotels_file, customers_file, procs>>

\* save_all called with any well-formed collection
NextRoundTrip ==
    \/ SaveHotelsStep
    \/ SaveCustomersStep
    \/ SaveReservationsStep

SpecRoundTrip == Init /\ [][NextRoundTrip]_vars

\* records as a file on disk can hold them under key i: complete, without
\* the optional fields, without required fields, with a rating that is
\* not a number
StoredHotelRecords(i) ==
    {[hotel_id |-> i, name |-> "Grand", location |-> "NYC", rating |-> "4.5",
      total_rooms |-> MaxRooms, available_rooms |-> a, reservations |-> l] :
        a \in {0, MaxRooms}, l \in {<<>>, <<"R1">>}}
    \cup {[hotel_id |-> i, name |-> "Grand", location |-> "NYC", rating |-> "4.5",
           total_rooms |-> MaxRooms]}
    \cup {[hotel_id |-> i]}
    \cup {[hotel_id |-> i, name |-> "Grand", location |-> "NYC", rating |-> "abc",
           total_rooms |-> MaxRooms, available_rooms |-> MaxRooms,
           reservations |-> <<>>]}

StoredCustomerRecords(i) ==
    {[customer_id |-> i, name |-> "a", email |-> "e@x", phone |-> "555"],
     [customer_id |-> i, name |-> "a"]}

StoredReservationRecords(i) ==
    {[reservation_id |-> i, customer_id |-> "C1", hotel_id |-> "H1",
      check_in |-> D10, check_out |-> D15, status |-> st] :
        st \in {"active", "cancelled"}}
    \cup {[reservation_id |-> i, customer_id |-> "C1", hotel_id |-> "H1",
           check_in |-> D10, check_out |-> D15]}
    \cup {[reservation_id |-> i, customer_id |-> "C1"]}

StoredHotelFiles ==
    UNION {{X \in [S -> UNION {StoredHotelRecords(i) : i \in S}] :
               \A i \in S : X[i] \in StoredHotelRecords(i)} : S \in SUBSET HotelIds}

StoredCustomerFiles ==
    UNION {{X \in [S -> UNION {StoredCustomerRecords(i) : i \in S}] :
               \A i \in S : X[i] \in StoredCustomerRecords(i)} : S \in SUBSET CustomerIds}

StoredReservationFiles ==
    UNION {{X \in [S -> UNION {StoredReservationRecords(i) : i \in S}] :
               \A i \in S : X[i] \in StoredReservationRecords(i)} :
           S \in SUBSET ReservationIds}

\* the program started on files that are already there
InitStored ==
    /\ hotels_file \in StoredHotelFiles
    /\ customers_file \in StoredCustomerFiles
    /\ reservations_file \in StoredReservationFiles
    /\ procs = IdleProcs

HotelGetStep == \E h \in HotelIds : HotelGet(h)

HotelDisplayStep == \E h \in HotelIds : HotelDisplay(h)

CustomerGetStep == \E c \in CustomerIds : CustomerGet(c)

CustomerDisplayStep == \E c \in CustomerIds : CustomerDisplay(c)

ReservationGetStep == \E r \in ReservationIds : ReservationGet(r)

ReservationDisplayStep == \E r \in ReservationIds : ReservationDisplay(r)

ReadStep ==
    \/ HotelGetStep
    \/ HotelDisplayStep
    \/ CustomerGetStep
    \/ CustomerDisplayStep
    \/ ReservationGetStep
    \/ ReservationDisplayStep

StoredHotelCreateStep ==
    \E h \in HotelIds : HotelCreate(h, "Grand", "NYC", "4.5", MaxRooms)

StoredCustomerCreateStep == \E c \in CustomerIds : CustomerCreate(c, "a", "e@x", "555")

StoredReservationCancelStep == \E r \in ReservationIds : ReservationCancel(r)

\* reads, and some writes, on files found on disk
NextStored ==
    \/ HotelGetStep
    \/ HotelDisplayStep
    \/ CustomerGetStep
    \/ CustomerDisplayStep
    \/ ReservationGetStep
    \/ ReservationDisplayStep
    \/ StoredHotelCreateStep
    \/ StoredCustomerCreateStep
    \/ StoredReservationCancelStep

SpecStored == InitStored /\ [][NextStored]_vars

DatesHotelCreateStep == \E h \in HotelIds : HotelCreate(h, "Grand", "NYC", "4.5", MaxRooms)

DatesCustomerCreateStep == CustomerCreate("C1", "a", "e@x", "555")

DatesReservationCreateStep ==
    \E r \in ReservationIds, h \in HotelIds, d \in StayPairs :
        ReservationCreate(r, "C1", h, d[1], d[2])

DatesReservationCancelStep == \E r \in ReservationIds : ReservationCancel(r)

\* reservations made with many pairs of dates
NextDates ==
    \/ DatesHotelCreateStep
    \/ DatesCustomerCreateStep
    \/ DatesReservationCreateStep
    \/ DatesReservationCancelStep

SpecDates == Init /\ [][NextDates]_vars

\* every public operation but the two direct calls of the hotel ledger
NextLifecycle ==
    \/ HotelCreateStep
    \/ HotelDeleteStep
    \/ HotelModifyStep
    \/ CustomerCreateStep
    \/ CustomerDeleteStep
    \/ CustomerModifyStep
    \/ ReservationCreateStep
    \/ ReservationCancelStep

SpecLifecycle == Init /\ [][NextLifecycle]_vars

\* hotels that are created and never deleted or modified, customers, and
\* reservations that are created and cancelled
NextAgree ==
    \/ HotelCreateStep
    \/ CustomerCreateStep
    \/ CustomerModifyStep
    \/ CustomerDeleteStep
    \/ ReservationCreateStep
    \/ ReservationCancelStep

SpecAgree == Init /\ [][NextAgree]_vars

DelCustomerIds == {"C1", "C2"}

DelHotelCreateStep ==
    \E h \in HotelIds, n \in ModNames : HotelCreate(h, n, "NYC", "4.5", MaxRooms)

DelHotelDeleteStep == \E h \in HotelIds : HotelDelete(h)

DelCustomerCreateStep ==
    \E c \in DelCustomerIds, n \in Names : CustomerCreate(c, n, "e@x", "555")

DelCustomerModifyStep ==
    \E c \in DelCustomerIds, n \in Names :
        CustomerModify(c, [k \in {"name"} |-> n])

DelCustomerDeleteStep == \E c \in DelCustomerIds : CustomerDelete(c)

DelReservationCreateStep ==
    \E r \in ReservationIds, c \in DelCustomerIds, h \in HotelIds :
        ReservationCreate(r, c, h, D10, D15)

DelReservationCancelStep == \E r \in ReservationIds : ReservationCancel(r)

\* records that are created, referenced by reservations and deleted
NextDelete ==
    \/ DelHotelCreateStep
    \/ DelHotelDeleteStep
    \/ DelCustomerCreateStep
    \/ DelCustomerModifyStep
    \/ DelCustomerDeleteStep
    \/ DelReservationCreateStep
    \/ DelReservationCancelStep

SpecDelete == Init /\ [][NextDelete]_vars

\* keyword arguments as a caller of the API can pass them: none, one or two
\* names, allowed or not, the rating also with a text that is not a number
ModifyKwargs ==
    {EmptyMap}
    \cup {[k \in {"name"} |-> v] : v \in ModNames}
    \cup {[k \in {"location"} |-> v] : v \in ModLocations}
    \cup {[k \in {"rating"} |-> v] : v \in RatingInputs}
    \cup {[k \in {"total_rooms"} |-> v] : v \in RoomInputs}
    \cup {[k \in {"available_rooms"} |-> MaxRooms + 1]}
    \cup {[k \in {"reservations"} |-> <<"R3">>]}
    \cup {[name |-> n, rating |-> g] : n \in ModNames, g \in RatingInputs}
    \cup {[total_rooms |-> t, available_rooms |-> MaxRooms + 1] : t \in RoomInputs}

CustomerModifyKwargs ==
    {EmptyMap}
    \cup {[k \in {"name"} |-> v] : v \in Names}
    \cup {[k \in {"email"} |-> v] : v \in ModEmails}
    \cup {[k \in {"phone"} |-> v] : v \in Phones}
    \cup {[k \in {"customer_id"} |-> "C2"]}
    \cup {[name |-> n, email |-> e] : n \in Names, e \in ModEmails}

ModHotelCreateStep ==
    \E h \in HotelIds, g \in Ratings, t \in RoomInputs :
        HotelCreate(h, "Grand", "NYC", g, t)

ModHotelModifyStep == \E h \in HotelIds, kw \in ModifyKwargs : HotelModify(h, kw)

ModHotelReserveStep == \E h \in HotelIds : HotelReserveRoom(h, "R1")

ModCustomerCreateStep ==
    \E c \in CustomerIds, n \in Names : CustomerCreate(c, n, "e@x", "555")

ModCustomerModifyStep ==
    \E c \in CustomerIds, kw \in CustomerModifyKwargs : CustomerModify(c, kw)

\* hotels and customers that are created and then modified through the API
NextModify ==
    \/ ModHotelCreateStep
    \/ ModHotelModifyStep
    \/ ModHotelReserveStep
    \/ ModCustomerCreateStep
    \/ ModCustomerModifyStep

SpecModify == Init /\ [][NextModify]_vars

ConcRooms == MaxRooms + 1

Busy(p) == procs.run[p].pc # "idle"

Other(p) == CHOOSE q \in Procs : q # p

\* process p moves to local state l; done holds what it has just completed
Moves(p, l, done) ==
    procs' = [run |-> [procs.run EXCEPT ![p] = l],
              overlapped |-> procs.overlapped \/ Busy(Other(p)),
              committed |-> procs.committed \cup done]

\* Reservation.create up to its first return: the dates are good, the
\* reservations are loaded and the id is looked up in them
ProcCreateStart(p, reservation_id, hotel_id) ==
    /\ ~Busy(p)
    /\ validate_dates(D10, D15)
    /\ IF reservation_id \in DOMAIN ReservationLoadAll(reservations_file)
          THEN Moves(p, Idle, {})
          ELSE Moves(p, [pc |-> "customer", op |-> "create",
                         rid |-> reservation_id, hid |-> hotel_id,
                         rf |-> reservations_file, hf |-> EmptyMap], {})
    /\ UNCHANGED <<hotels_file, customers_file, reservations_file>>

\* Customer.get inside Reservation.create
ProcCustomerGet(p) ==
    /\ procs.run[p].pc = "customer"
    /\ IF Customer_get(customers_file, "C1") = "None"
          THEN Moves(p, Idle, {})
          ELSE Moves(p, [procs.run[p] EXCEPT !.pc = "load_hotels"], {})
    /\ UNCHANGED <<hotels_file, customers_file, reservations_file>>

\* Hotel.reserve_room up to its save: the hotels are loaded, the hotel is
\* looked up and its free rooms are tested
LoadsHotels(p, l) ==
    /\ IF Hotel_reserve_room(hotels_file, l.hid, l.rid).ret = "False"
          THEN Moves(p, Idle, {})
          ELSE Moves(p, [l EXCEPT !.pc = "save_hotels", !.hf = hotels_file], {})
    /\ UNCHANGED <<hotels_file, customers_file, reservations_file>>

\* the call of Hotel.reserve_room that Reservation.create makes
ProcCreateLoadHotels(p) ==
    /\ procs.run[p].pc = "load_hotels"
    /\ LoadsHotels(p, procs.run[p])

\* Hotel.reserve_room called on its own
ProcReserveStart(p, hotel_id, reservation_id) ==
    /\ ~Busy(p)
    /\ LoadsHotels(p, [pc |-> "load_hotels", op |-> "reserve",
                       rid |-> reservation_id, hid |-> hotel_id,
                       rf |-> EmptyMap, hf |-> EmptyMap])

\* the save of Hotel.reserve_room: the hotels as they were loaded, with one
\* room less and the id appended, replace the file
ProcSaveHotels(p) ==
    LET l == procs.run[p] IN
    /\ l.pc = "save_hotels"
    /\ hotels_file' = Hotel_reserve_room(l.hf, l.hid, l.rid).file
    /\ IF l.op = "reserve"
          THEN Moves(p, Idle, {[op |-> "reserve", rid |-> l.rid, hid |-> l.hid]})
          ELSE Moves(p, [l EXCEPT !.pc = "save_reservations"], {})
    /\ UNCHANGED <<customers_file, reservations_file>>

\* a save that writes the new reservation alone
ProcSaveReservationsAlone(p) ==
    LET l == procs.run[p] IN
    /\ l.pc = "save_reservations"
    /\ reservations_file' =
         ReservationSaveAll(
             Put(EmptyMap, l.rid, ReservationInit(l.rid, "C1", l.hid, D10, D15)))
    /\ Moves(p, Idle, {[op |-> "create", rid |-> l.rid, hid |-> l.hid]})
    /\ UNCHANGED <<hotels_file, customers_file>>

\* the save of Reservation.create: the reservations as they were loaded,
\* with the new one added, replace the file
ProcSaveReservations(p) ==
    LET l == procs.run[p] IN
    /\ l.pc = "save_reservations"
    /\ reservations_file' =
         ReservationSaveAll(
             Put(ReservationLoadAll(l.rf), l.rid,
                 ReservationInit(l.rid, "C1", l.hid, D10, D15)))
    /\ Moves(p, Idle, {[op |-> "create", rid |-> l.rid, hid |-> l.hid]})
    /\ UNCHANGED <<hotels_file, customers_file>>

\* one hotel with ConcRooms rooms and one customer are stored
InitConcurrent ==
    /\ hotels_file = Hotel_create(EmptyMap, "H1", "Grand", "NYC", "4.5", ConcRooms).file
    /\ customers_file = Customer_create(EmptyMap, "C1", "a", "e@x", "555").file
    /\ reservations_file = EmptyMap
    /\ procs = IdleProcs

ProcCreateStartStep ==
    \E p \in Procs, r \in ReservationIds, h \in HotelIds : ProcCreateStart(p, r, h)

ProcCustomerGetStep == \E p \in Procs : ProcCustomerGet(p)

ProcCreateLoadHotelsStep == \E p \in Procs : ProcCreateLoadHotels(p)

ProcReserveStartStep ==
    \E p \in Procs, h \in HotelIds, r \in ReservationIds : ProcReserveStart(p, h, r)

ProcSaveHotelsStep == \E p \in Procs : ProcSaveHotels(p)

ProcSaveReservationsStep == \E p \in Procs : ProcSaveReservations(p)

\* two processes, each running Reservation.create or Hotel.reserve_room
\* one file access at a time
NextConcurrent ==
    \/ ProcCreateStartStep
    \/ ProcCustomerGetStep
    \/ ProcCreateLoadHotelsStep
    \/ ProcReserveStartStep
    \/ ProcSaveHotelsStep
    \/ ProcSaveReservationsStep

SpecConcurrent == InitConcurrent /\ [][NextConcurrent]_vars

----------------------------------------------------------------------------
(* The stores as the operations see them.                                  *)

hotels == HotelLoadAll(hotels_file)

customers == CustomerLoadAll(customers_file)

reservations == ReservationLoadAll(reservations_file)

ActiveAt(res, h) ==
    {r \in DOMAIN res : res[r].hotel_id = h /\ res[r].status = "active"}

----------------------------------------------------------------------------
(* C1: in every state reached without deleting a hotel or a customer,      *)
(* every stored hotel has available_rooms + (number of stored active       *)
(* reservations naming it) = total_rooms.                                  *)

C1_InventoryInvariant ==
    \A h \in DOMAIN hotels :
        hotels[h].available_rooms + Cardinality(ActiveAt(reservations, h))
            = hotels[h].total_rooms

----------------------------------------------------------------------------
(* C2: for a hotel that is created and then only reserved against and      *)
(* released (calls that succeed or fail, ids repeated or not),             *)
(* available_rooms + (number of entries of its reservations list)          *)
(* = total_rooms.                                                          *)

C2_LedgerConservation ==
    \A h \in DOMAIN hotels :
        hotels[h].available_rooms + Len(hotels[h].reservations)
            = hotels[h].total_rooms

\* a hotel that holds the same id twice and has no room left
C2_Witness ==
    \E h \in DOMAIN hotels :
        /\ Len(hotels[h].reservations) = 2
        /\ hotels[h].reservations[1] = hotels[h].reservations[2]
        /\ hotels[h].available_rooms = 0

----------------------------------------------------------------------------
(* C3: every stored hotel has 0 <= available_rooms <= total_rooms.         *)

C3_BoundsInvariant ==
    \A h \in DOMAIN hotels :
        /\ 0 <= hotels[h].available_rooms
        /\ hotels[h].available_rooms <= hotels[h].total_rooms

----------------------------------------------------------------------------
(* C4: no operation changes the total_rooms of a hotel that is stored      *)
(* before and after it.                                                    *)

TotalRoomsKept ==
    \/ hotels_file' = hotels_file
    \/ LET after == HotelLoadAll(hotels_file') IN
       \A h \in DOMAIN hotels \cap DOMAIN after :
           after[h].total_rooms = hotels[h].total_rooms

----------------------------------------------------------------------------
(* C5: Hotel.reserve_room on a stored hotel with available_rooms <= 0      *)
(* returns False and leaves the hotel store as it was; no reserve_room     *)
(* takes available_rooms from 0 or more to below 0.                        *)

C5_ReserveFailsWithoutRooms ==
    \A h \in DOMAIN hotels, r \in ReservationIds :
        LET x == Hotel_reserve_room(hotels_file, h, r)
            after == HotelLoadAll(x.file)
        IN /\ hotels[h].available_rooms <= 0
                => x.ret = "False" /\ x.file = hotels_file
           /\ hotels[h].available_rooms >= 0 => after[h].available_rooms >= 0

\* a hotel filled up by a reservation, on which a further reserve_room fails
C5_Witness ==
    \E h \in DOMAIN hotels, r \in ReservationIds :
        /\ hotels[h].available_rooms = 0
        /\ hotels[h].total_rooms > 0
        /\ hotels[h].reservations # <<>>
        /\ Hotel_reserve_room(hotels_file, h, r).ret = "False"

----------------------------------------------------------------------------
(* C6: Hotel.cancel_reservation, successful or not, leaves                 *)
(* available_rooms <= total_rooms in every hotel where that held before,   *)
(* and a successful call leaves it so in the hotel it names in any case.   *)

C6_CancelNeverExceedsTotal ==
    \A h \in HotelIds, r \in ReservationIds :
        LET x == Hotel_cancel_reservation(hotels_file, h, r)
            after == HotelLoadAll(x.file)
        IN /\ \A k \in DOMAIN hotels \cap DOMAIN after :
                hotels[k].available_rooms <= hotels[k].total_rooms
                    => after[k].available_rooms <= after[k].total_rooms
           /\ x.ret = "True"
                => /\ h \in DOMAIN after
                   /\ after[h].available_rooms <= after[h].total_rooms

\* a recorded id on a hotel that is already at its total: the release
\* succeeds and must not count the room
C6_Witness ==
    \E h \in DOMAIN hotels, r \in ReservationIds :
        /\ hotels[h].available_rooms >= hotels[h].total_rooms
        /\ InList(hotels[h].reservations, r)
        /\ Hotel_cancel_reservation(hotels_file, h, r).ret = "True"

----------------------------------------------------------------------------
(* C7: whenever Reservation.create returns None, the three stores are as   *)
(* before the call.                                                        *)

C7_CreateFailureChangesNothing ==
    \A r \in ReservationIds, c \in CustomerIds, h \in HotelIds, d \in DatePairs :
        LET x == ResCreate(r, c, h, d[1], d[2])
        IN x.ret = "None"
              => /\ x.hotels_file = hotels_file
                 /\ x.customers_file = customers_file
                 /\ x.reservations_file = reservations_file

\* a create with good dates and a new id on a hotel with a free room, which
\* fails only because the customer is unknown
C7_Witness ==
    \E r \in ReservationIds, c \in CustomerIds, h \in DOMAIN hotels :
        /\ r \notin DOMAIN reservations
        /\ c \notin DOMAIN customers
        /\ hotels[h].available_rooms > 0
        /\ ResCreate(r, c, h, D10, D15).ret = "None"

----------------------------------------------------------------------------
(* C8: a Reservation.create with valid dates, a new id, a stored customer  *)
(* and a stored hotel with a free room returns the reservation, stores it  *)
(* with status active, takes exactly one room of that hotel and records    *)
(* the id there, and changes nothing else.                                 *)

C8_CreateSuccess ==
    \A r \in ReservationIds, c \in CustomerIds, h \in HotelIds, d \in DatePairs :
        LET x == ResCreate(r, c, h, d[1], d[2])
            hAfter == HotelLoadAll(x.hotels_file)
            rAfter == ReservationLoadAll(x.reservations_file)
        IN (/\ validate_dates(d[1], d[2])
            /\ r \notin DOMAIN reservations
            /\ c \in DOMAIN customers
            /\ h \in DOMAIN hotels
            /\ hotels[h].available_rooms > 0)
           => /\ x.ret = "obj"
              /\ DOMAIN rAfter = DOMAIN reservations \cup {r}
              /\ rAfter[r].status = "active"
              /\ rAfter[r].reservation_id = r
              /\ rAfter[r].customer_id = c
              /\ rAfter[r].hotel_id = h
              /\ rAfter[r].check_in = d[1]
              /\ rAfter[r].check_out = d[2]
              /\ \A k \in DOMAIN reservations : rAfter[k] = reservations[k]
              /\ DOMAIN hAfter = DOMAIN hotels
              /\ hAfter[h].available_rooms = hotels[h].available_rooms - 1
              /\ InList(hAfter[h].reservations, r)
              /\ hAfter[h].total_rooms = hotels[h].total_rooms
              /\ \A k \in DOMAIN hotels \ {h} : hAfter[k] = hotels[k]
              /\ x.customers_file = customers_file

\* one reservation has been created on a hotel, and a second create on the
\* other hotel is about to succeed
C8_Witness ==
    \E r1, r2 \in ReservationIds, h1, h2 \in DOMAIN hotels, c \in DOMAIN customers :
        /\ h1 # h2
        /\ r1 \in DOMAIN reservations
        /\ reservations[r1].status = "active"
        /\ reservations[r1].hotel_id = h1
        /\ hotels[h1].reservations = <<r1>>
        /\ hotels[h1].available_rooms = hotels[h1].total_rooms - 1
        /\ r2 \notin DOMAIN reservations
        /\ hotels[h2].available_rooms > 0
        /\ ResCreate(r2, c, h2, D10, D15).ret = "obj"

----------------------------------------------------------------------------
(* C9: cancelling an active reservation whose hotel is stored and records  *)
(* it leaves the reservation cancelled, its id no longer in the hotel's    *)
(* list and available_rooms exactly one greater.                           *)

Recorded(r) ==
    /\ r \in DOMAIN reservations
    /\ reservations[r].status = "active"
    /\ reservations[r].hotel_id \in DOMAIN hotels
    /\ InList(hotels[reservations[r].hotel_id].reservations, r)

----------------------------------------------------------------------------
(* C10: Reservation.cancel on a cancelled reservation returns False and    *)
(* leaves the reservation store and the hotel store as they were.          *)

C10_CancelTwiceChangesNothing ==
    \A r \in DOMAIN reservations :
        reservations[r].status = "cancelled" =>
            LET x == ResCancel(r)
            IN /\ x.ret = "False"
               /\ x.reservations_file = reservations_file
               /\ x.hotels_file = hotels_file

\* a cancelled reservation whose id is on its hotel's list again: a second
\* cancel that got through would release that room
C10_Witness ==
    \E r \in DOMAIN reservations :
        /\ reservations[r].status = "cancelled"
        /\ reservations[r].hotel_id \in DOMAIN hotels
        /\ InList(hotels[reservations[r].hotel_id].reservations, r)
        /\ ResCancel(r).ret = "False"

----------------------------------------------------------------------------
(* C11: the only change of a stored reservation's status is from active to *)
(* cancelled, and a reservation that is cancelled is stored and cancelled  *)
(* after every operation.                                                  *)

StatusMonotonic ==
    \/ reservations_file' = reservations_file
    \/ LET after == ReservationLoadAll(reservations_file') IN
       \A r \in DOMAIN reservations :
           /\ reservations[r].status = "cancelled"
                => r \in DOMAIN after /\ after[r].status = "cancelled"
           /\ r \in DOMAIN after /\ after[r].status # reservations[r].status
                => reservations[r].status = "active" /\ after[r].status = "cancelled"

C11_StatusMonotonic == [][StatusMonotonic]_vars

\* a cancelled reservation whose id is offered to create again, with good
\* dates, a stored customer and a hotel with a free room
C11_Witness ==
    \E r \in DOMAIN reservations, c \in DOMAIN customers, h \in DOMAIN hotels :
        /\ reservations[r].status = "cancelled"
        /\ hotels[h].available_rooms > 0
        /\ ResCreate(r, c, h, D10, D15).ret = "None"

----------------------------------------------------------------------------
(* C12: with a stored customer, a hotel created with 1 room takes a first  *)
(* reservation (available_rooms 0), refuses a second, gets the room back   *)
(* when the first is cancelled (available_rooms 1) and then takes a third. *)

AvailableIn(hf, h) == HotelLoadAll(hf)[h].available_rooms

SingleRoomScenario(h, c, r1, r2, r3) ==
    LET s0 == Hotel_create(hotels_file, h, "Grand", "NYC", "4.5", 1)
        s1 == Reservation_create(s0.file, customers_file, reservations_file,
                                 r1, c, h, D10, D15)
        s2 == Reservation_create(s1.hotels_file, s1.customers_file,
                                 s1.reservations_file, r2, c, h, D10, D15)
        s3 == Reservation_cancel(s2.hotels_file, s2.customers_file,
                                 s2.reservations_file, r1)
        s4 == Reservation_create(s3.hotels_file, s3.customers_file,
                                 s3.reservations_file, r3, c, h, D10, D15)
    IN /\ s0.ret = "obj"
       /\ s1.ret = "obj" /\ AvailableIn(s1.hotels_file, h) = 0
       /\ s2.ret = "None" /\ AvailableIn(s2.hotels_file, h) = 0
       /\ s3.ret = "True" /\ AvailableIn(s3.hotels_file, h) = 1
       /\ s4.ret = "obj" /\ AvailableIn(s4.hotels_file, h) = 0

ScenarioStart(h, c, r1, r2, r3) ==
    /\ h \notin DOMAIN hotels
    /\ c \in DOMAIN customers
    /\ Cardinality({r1, r2, r3}) = 3
    /\ {r1, r2, r3} \cap DOMAIN reservations = {}

C12_SingleRoomScenario ==
    \A h \in HotelIds, c \in CustomerIds, r1 \in LedgerIds, r2 \in LedgerIds,
       r3 \in LedgerIds :
        ScenarioStart(h, c, r1, r2, r3) => SingleRoomScenario(h, c, r1, r2, r3)

\* the empty system with one customer, from which the scenario runs
C12_Witness ==
    /\ hotels_file = EmptyMap
    /\ reservations_file = EmptyMap
    /\ ScenarioStart("H1", "C1", "R1", "R2", "R3")
    /\ SingleRoomScenario("H1", "C1", "R1", "R2", "R3")

----------------------------------------------------------------------------
(* C13: cancelling a stored active reservation whose hotel is not stored,  *)
(* or does not record the id, returns True and stores the reservation as   *)
(* cancelled, and changes no hotel.                                        *)

ReleaseFails(r) ==
    \/ reservations[r].hotel_id \notin DOMAIN hotels
    \/ ~InList(hotels[reservations[r].hotel_id].reservations, r)

C13_BestEffortCancel ==
    \A r \in DOMAIN reservations :
        reservations[r].status = "active" /\ ReleaseFails(r) =>
            LET x == ResCancel(r)
                rAfter == ReservationLoadAll(x.reservations_file)
            IN /\ x.ret = "True"
               /\ r \in DOMAIN rAfter
               /\ rAfter[r].status = "cancelled"
               /\ x.hotels_file = hotels_file

\* two active reservations: one whose hotel has been deleted, one whose
\* hotel no longer records it
C13_Witness ==
    \E r1, r2 \in DOMAIN reservations :
        /\ reservations[r1].status = "active"
        /\ reservations[r1].hotel_id \notin DOMAIN hotels
        /\ reservations[r2].status = "active"
        /\ reservations[r2].hotel_id \in DOMAIN hotels
        /\ ~InList(hotels[reservations[r2].hotel_id].reservations, r2)
        /\ ResCancel(r1).ret = "True"
        /\ ResCancel(r2).ret = "True"

----------------------------------------------------------------------------
(* C14: modify of a stored hotel returns True for any keyword arguments    *)
(* and writes a record in which each of name, location, rating and         *)
(* total_rooms that was named has the value given and every other field,   *)
(* hotel_id, available_rooms and reservations among them, has the value it *)
(* had; a name outside the four is ignored. The same for a customer with   *)
(* name, email and phone.                                                  *)

FrameKept(before, written, kwargs, allowed) ==
    /\ DOMAIN written = DOMAIN before
    /\ \A f \in DOMAIN before :
          written[f] = IF f \in DOMAIN kwargs /\ f \in allowed
                          THEN kwargs[f] ELSE before[f]

----------------------------------------------------------------------------
(* C15: after a modify that returned True, get returns the hotel and each  *)
(* allowed field that was named has the value supplied; the same for a     *)
(* customer.                                                               *)

Visible(after, id, kwargs, allowed) ==
    /\ id \in DOMAIN after
    /\ \A f \in DOMAIN kwargs \cap allowed : after[id][f] = kwargs[f]

C15_ModifyVisible ==
    /\ \A h \in DOMAIN hotels, kw \in ModifyKwargs :
          LET x == Hotel_modify(hotels_file, h, kw)
          IN x.ret = "True" => /\ Hotel_get(x.file, h) # "None"
                               /\ Visible(HotelLoadAll(x.file), h, kw, HotelAllowed)
    /\ \A c \in DOMAIN customers, kw \in CustomerModifyKwargs :
          LET x == Customer_modify(customers_file, c, kw)
          IN x.ret = "True" => /\ Customer_get(x.file, c) # "None"
                               /\ Visible(CustomerLoadAll(x.file), c, kw, CustomerAllowed)

----------------------------------------------------------------------------
(* C16: reserve_room on a hotel that is not stored returns False and       *)
(* changes nothing; when it returns True the stored hotel has exactly one  *)
(* available room less and the id appended to its reservations, its other  *)
(* fields and every other hotel are as before.                             *)

OthersKept(after, h) ==
    /\ DOMAIN after = DOMAIN hotels
    /\ \A o \in DOMAIN hotels \ {h} : after[o] = hotels[o]

C16_ReserveRoomPostconditions ==
    \A h \in HotelIds, r \in LedgerIds :
        LET x == Hotel_reserve_room(hotels_file, h, r)
            after == HotelLoadAll(x.file)
        IN /\ h \notin DOMAIN hotels => x.ret = "False" /\ x.file = hotels_file
           /\ x.ret = "True" =>
                 /\ h \in DOMAIN hotels
                 /\ OthersKept(after, h)
                 /\ after[h] = [hotels[h] EXCEPT
                                  !.available_rooms = hotels[h].available_rooms - 1,
                                  !.reservations = hotels[h].reservations \o <<r>>]

\* two stored hotels, a room taken in one of them while the other holds a
\* reservation of its own
C16_Witness ==
    \E h \in DOMAIN hotels, o \in DOMAIN hotels :
        /\ h # o
        /\ hotels[o].reservations # <<>>
        /\ Hotel_reserve_room(hotels_file, h, "R1").ret = "True"

----------------------------------------------------------------------------
(* C17: cancel_reservation on a hotel that is not stored, or that does not *)
(* list the id, returns False and changes nothing; otherwise it returns    *)
(* True, the list has one occurrence of the id less and is otherwise the   *)
(* same, available_rooms is the smaller of available_rooms + 1 and         *)
(* total_rooms, and every other hotel is as before.                        *)

C17_CancelReservationPostconditions ==
    \A h \in HotelIds, r \in LedgerIds :
        LET x == Hotel_cancel_reservation(hotels_file, h, r)
            after == HotelLoadAll(x.file)
        IN IF h \notin DOMAIN hotels \/ ~InList(hotels[h].reservations, r)
              THEN x.ret = "False" /\ x.file = hotels_file
              ELSE /\ x.ret = "True"
                   /\ OthersKept(after, h)
                   /\ Len(after[h].reservations) = Len(hotels[h].reservations) - 1
                   /\ \A q \in LedgerIds :
                         Count(after[h].reservations, q) =
                            Count(hotels[h].reservations, q) - (IF q = r THEN 1 ELSE 0)
                   /\ after[h].available_rooms =
                         (IF hotels[h].available_rooms + 1 <= hotels[h].total_rooms
                             THEN hotels[h].available_rooms + 1
                             ELSE hotels[h].total_rooms)
                   /\ \A f \in DOMAIN hotels[h] \ {"reservations", "available_rooms"} :
                         after[h][f] = hotels[h][f]

\* two stored hotels, one listing an id twice with no room to give back
\* under its total_rooms, and a release of that id
C17_Witness ==
    \E h \in DOMAIN hotels, o \in DOMAIN hotels, r \in LedgerIds :
        /\ h # o
        /\ Count(hotels[h].reservations, r) = 2
        /\ hotels[h].available_rooms + 1 > hotels[h].total_rooms
        /\ Hotel_cancel_reservation(hotels_file, h, r).ret = "True"

----------------------------------------------------------------------------
(* C18: no hotel's reservations list holds the same id more than once.     *)

C18_NoDuplicates ==
    \A h \in DOMAIN hotels, r \in LedgerIds : Count(hotels[h].reservations, r) <= 1

----------------------------------------------------------------------------
(* C19: a mutating operation during which one read or one write fails      *)
(* leaves the content of the three files as it was.                        *)

FilesKept(hf, cf, rf) ==
    /\ hf = hotels_file
    /\ cf = customers_file
    /\ rf = reservations_file

\* the faults that can occur in the state: a read fails on stored content
ReadFaults ==
    {k \in {"hr"} : hotels_file # EmptyMap}
    \cup {k \in {"cr"} : customers_file # EmptyMap}
    \cup {k \in {"rr"} : reservations_file # EmptyMap}

HotelFaults == {Io({k}) : k \in {"hw"} \cup (ReadFaults \cap {"hr"})}

CustomerFaults == {Io({k}) : k \in {"cw"} \cup (ReadFaults \cap {"cr"})}

ReservationFaults == {Io({k}) : k \in {"hw", "rw"} \cup ReadFaults}

C19_StorageFailureNoOp ==
    /\ \A io \in HotelFaults, h \in HotelIds :
          /\ \A t \in 0..MaxRooms :
                Hotel_create_io(io, hotels_file, h, "Grand", "NYC", "4.5", t).file
                    = hotels_file
          /\ Hotel_delete_io(io, hotels_file, h).file = hotels_file
          /\ \A kw \in HotelKwargs : Hotel_modify_io(io, hotels_file, h, kw).file = hotels_file
          /\ \A r \in ReservationIds :
                /\ Hotel_reserve_room_io(io, hotels_file, h, r).file = hotels_file
                /\ Hotel_cancel_reservation_io(io, hotels_file, h, r).file = hotels_file
    /\ \A io \in CustomerFaults, c \in CustomerIds :
          /\ \A n \in Names :
                Customer_create_io(io, customers_file, c, n, "e@x", "555").file
                    = customers_file
          /\ Customer_delete_io(io, customers_file, c).file = customers_file
          /\ \A kw \in CustomerKwargs :
                Customer_modify_io(io, customers_file, c, kw).file = customers_file
    /\ \A io \in ReservationFaults, r \in ReservationIds :
          /\ \A c \in CustomerIds, h \in HotelIds :
                LET x == Reservation_create_io(io, hotels_file, customers_file,
                                               reservations_file, r, c, h, D10, D15)
                IN FilesKept(x.hotels_file, x.customers_file, x.reservations_file)
          /\ LET x == Reservation_cancel_io(io, hotels_file, customers_file,
                                            reservations_file, r)
             IN FilesKept(x.hotels_file, x.customers_file, x.reservations_file)

----------------------------------------------------------------------------
(* C20: for each store, load_all of what save_all wrote for a well-formed  *)
(* collection X is X: the same keys and records equal field for field.     *)

C20_RoundTrip ==
    /\ \A X \in WellFormedHotels :
          hotels_file = HotelSaveAll(X) => HotelLoadAll(hotels_file) = X
    /\ \A X \in WellFormedCustomers :
          customers_file = CustomerSaveAll(X) => CustomerLoadAll(customers_file) = X
    /\ \A X \in WellFormedReservations :
          reservations_file = ReservationSaveAll(X)
              => ReservationLoadAll(reservations_file) = X

\* the three files as saved from collections with two hotels whose
\* available_rooms differs from total_rooms and whose list is not empty,
\* a customer, and an active and a cancelled reservation
C20_Witness ==
    /\ \E X \in WellFormedHotels :
          /\ DOMAIN X = HotelIds
          /\ \A h \in HotelIds : /\ X[h].available_rooms # X[h].total_rooms
                                 /\ X[h].reservations # <<>>
          /\ hotels_file = HotelSaveAll(X)
    /\ \E X \in WellFormedCustomers :
          DOMAIN X = CustomerIds /\ customers_file = CustomerSaveAll(X)
    /\ \E X \in WellFormedReservations :
          /\ DOMAIN X = ReservationIds
          /\ {X[r].status : r \in ReservationIds} = {"active", "cancelled"}
          /\ reservations_file = ReservationSaveAll(X)

----------------------------------------------------------------------------
(* C21: load_all raises nothing; it returns the empty mapping for a file   *)
(* that is absent, unreadable or not parseable as a whole, and otherwise   *)
(* the records that have their required fields in values that convert,    *)
(* each under its stored key, with the stored values and the defaults for  *)
(* the optional fields.                                                    *)

HotelRequired == {"hotel_id", "name", "location", "rating", "total_rooms"}

WellFormedHotelKeys ==
    {k \in DOMAIN hotels_file :
        /\ HotelRequired \subseteq DOMAIN hotels_file[k]
        /\ hotels_file[k].rating \notin NonNumeric}

HotelAsStored(k, hotel) ==
    /\ \A f \in HotelRequired : hotel[f] = hotels_file[k][f]
    /\ hotel.available_rooms =
          (IF "available_rooms" \in DOMAIN hotels_file[k]
              THEN hotels_file[k].available_rooms ELSE hotels_file[k].total_rooms)
    /\ hotel.reservations =
          (IF "reservations" \in DOMAIN hotels_file[k]
              THEN hotels_file[k].reservations ELSE <<>>)

C21_LoadAllTolerance ==
    \A kind \in FileKinds :
        LET x == HotelLoadAllOf(kind, hotels_file)
        IN /\ ~x.raised
           /\ kind # "object" => x.value = EmptyMap
           /\ kind = "object" =>
                 /\ DOMAIN x.value = WellFormedHotelKeys
                 /\ \A k \in DOMAIN x.value : HotelAsStored(k, x.value[k])

----------------------------------------------------------------------------
(* C29: a step of get or display, of any of the three entities and with    *)
(* any id, leaves the three files as they are.                             *)

C29_ReadsArePure == [][ReadStep => UNCHANGED vars]_vars

\* files that hold a record load_all skips next to one it returns, read
\* with an id that is stored and with one that is not
C29_Witness ==
    /\ \E h \in DOMAIN hotels, k \in DOMAIN hotels_file :
          /\ k \notin DOMAIN hotels
          /\ Hotel_get(hotels_file, h) = "obj" /\ Hotel_display(hotels_file, h) = "True"
          /\ Hotel_get(hotels_file, k) = "None" /\ Hotel_display(hotels_file, k) = "False"
    /\ \E r \in DOMAIN reservations, u \in ReservationIds :
          /\ u \notin DOMAIN reservations_file
          /\ Reservation_get(reservations_file, r) = "obj"
          /\ Reservation_display(reservations_file, u) = "False"
    /\ \E c \in CustomerIds :
          /\ Customer_get(customers_file, c) = "obj"
          /\ Customer_display(customers_file, c) = "True"

----------------------------------------------------------------------------
(* C22: validate_dates returns the parsed pair exactly when both texts are *)
(* calendar dates and check_out is strictly after check_in, and failure in *)
(* every other case, the same day included; Reservation.create stores      *)
(* nothing else.                                                           *)

LeapYears == {2000, 2024}

IsCalendarDate(t) ==
    /\ t[1] \in 1..9999 /\ t[2] \in 1..12 /\ t[3] >= 1
    /\ \/ t[3] <= 28
       \/ t[3] \in {29, 30} /\ t[2] # 2
       \/ t[3] = 31 /\ t[2] \in {1, 3, 5, 7, 8, 10, 12}
       \/ t[3] = 29 /\ t[2] = 2 /\ t[1] \in LeapYears

DayNumber(t) == (t[1] * 12 + t[2]) * 31 + t[3]

GoodStay(check_in, check_out) ==
    /\ IsCalendarDate(check_in)
    /\ IsCalendarDate(check_out)
    /\ DayNumber(check_out) > DayNumber(check_in)

C22_ValidateDates ==
    /\ \A ci \in DateTexts, co \in DateTexts :
          /\ validate_dates(ci, co) = GoodStay(ci, co)
          /\ \A r \in ReservationIds, h \in HotelIds :
                ResCreate(r, "C1", h, ci, co).ret = "obj" => GoodStay(ci, co)
    /\ ~validate_dates(D10, D10)
    /\ validate_dates(D10, D15)
    /\ \A r \in DOMAIN reservations :
          GoodStay(reservations[r].check_in, reservations[r].check_out)

\* a reservation stored with dates across the end of a leap-year February,
\* and a free room for which the same day and an impossible date are refused
C22_Witness ==
    \E r \in DOMAIN reservations, q \in ReservationIds :
        /\ reservations[r].check_in = <<2024, 2, 29>>
        /\ q \notin DOMAIN reservations
        /\ ResCreate(q, "C1", "H1", D10, D15).ret = "obj"
        /\ ResCreate(q, "C1", "H1", D10, D10).ret = "None"
        /\ ResCreate(q, "C1", "H1", <<2025, 2, 29>>, <<2025, 4, 30>>).ret = "None"

----------------------------------------------------------------------------
(* C23: create with an id that is stored returns None and leaves the three *)
(* files as they are, for a hotel, a customer and a reservation, whatever  *)
(* the other arguments; for a reservation also with good dates, a stored   *)
(* customer and a hotel with a free room.                                  *)

C23_DuplicateCreateRejected ==
    /\ \A h \in DOMAIN hotels, n \in ModNames, t \in RoomInputs :
          LET x == Hotel_create(hotels_file, h, n, "LA", "4.5", t)
          IN x.ret = "None" /\ x.file = hotels_file
    /\ \A c \in DOMAIN customers, n \in Names, m \in ModEmails :
          LET x == Customer_create(customers_file, c, n, m, "555")
          IN x.ret = "None" /\ x.file = customers_file
    /\ \A r \in DOMAIN reservations, c \in CustomerIds, h \in HotelIds, d \in DatePairs :
          LET x == ResCreate(r, c, h, d[1], d[2])
          IN /\ x.ret = "None"
             /\ x.hotels_file = hotels_file
             /\ x.customers_file = customers_file
             /\ x.reservations_file = reservations_file

\* a stored reservation offered again with good dates, its customer stored
\* and a free room at a stored hotel
C23_Witness ==
    \E r \in DOMAIN reservations, c \in DOMAIN customers, h \in DOMAIN hotels :
        /\ hotels[h].available_rooms > 0
        /\ reservations[r].customer_id = c
        /\ reservations[r].status = "active"
        /\ ResCreate(r, c, h, D10, D15).ret = "None"
        /\ Hotel_create(hotels_file, h, "Plaza", "LA", "4.5", MaxRooms).ret = "None"
        /\ Customer_create(customers_file, c, "b", "f@x", "555").ret = "None"

----------------------------------------------------------------------------
(* C24: Hotel.create with an id that is not stored and a numeric rating    *)
(* returns the hotel and stores it with the fields given, available_rooms  *)
(* equal to total_rooms and an empty reservations list; every other hotel  *)
(* is as before.                                                           *)

C24_HotelCreationState ==
    \A h \in HotelIds \ DOMAIN hotels, n \in ModNames, g \in RatingInputs,
       t \in LedgerRoomInputs :
        LET x == Hotel_create(hotels_file, h, n, "LA", g, t)
            after == HotelLoadAll(x.file)
        IN /\ x.ret = "obj" <=> g \notin NonNumeric
           /\ x.ret = "None" => x.file = hotels_file
           /\ x.ret = "obj" =>
                 /\ DOMAIN after = DOMAIN hotels \cup {h}
                 /\ after[h] = [hotel_id |-> h, name |-> n, location |-> "LA",
                                rating |-> g, total_rooms |-> t,
                                available_rooms |-> t, reservations |-> <<>>]
                 /\ \A o \in DOMAIN hotels : after[o] = hotels[o]

\* a hotel created next to one that has rooms taken
C24_Witness ==
    \E h \in HotelIds, o \in DOMAIN hotels :
        /\ h \notin DOMAIN hotels
        /\ hotels[o].reservations # <<>>
        /\ hotels[o].available_rooms # hotels[o].total_rooms
        /\ Hotel_create(hotels_file, h, "Plaza", "LA", "4.5", MaxLedgerRooms).ret = "obj"
----------------------------------------------------------------------------
\* C25: delete of a hotel or of a customer fails on an id that is not
\* stored and leaves the store as it was; on a stored id it succeeds and
\* removes that record and no other: get then returns None for the id and
\* every other record is stored as before.
C25_Delete ==
    /\ \A h \in HotelIds :
          LET x == Hotel_delete(hotels_file, h)
              after == HotelLoadAll(x.file)
          IN /\ x.ret = (IF h \in DOMAIN hotels THEN "True" ELSE "False")
             /\ x.ret = "False" => x.file = hotels_file
             /\ x.ret = "True" =>
                   /\ DOMAIN after = DOMAIN hotels \ {h}
                   /\ Hotel_get(x.file, h) = "None"
                   /\ \A o \in DOMAIN after : after[o] = hotels[o]
    /\ \A c \in DelCustomerIds :
          LET x == Customer_delete(customers_file, c)
              after == CustomerLoadAll(x.file)
          IN /\ x.ret = (IF c \in DOMAIN customers THEN "True" ELSE "False")
             /\ x.ret = "False" => x.file = customers_file
             /\ x.ret = "True" =>
                   /\ DOMAIN after = DOMAIN customers \ {c}
                   /\ Customer_get(x.file, c) = "None"
                   /\ \A o \in DOMAIN after : after[o] = customers[o]

\* two hotels and two customers are stored, each pair with different
\* fields, so a delete has a record to remove and another one to keep
C25_Witness ==
    /\ DOMAIN hotels = HotelIds
    /\ hotels["H1"].name # hotels["H2"].name
    /\ hotels["H2"].reservations # <<>>
    /\ DOMAIN customers = DelCustomerIds
    /\ customers["C1"].name # customers["C2"].name
    /\ Hotel_delete(hotels_file, "H1").ret = "True"
    /\ Customer_delete(customers_file, "C2").ret = "True"
----------------------------------------------------------------------------
\* the active reservations that name hotel h, and those that name customer c
ActiveOfHotel(h) ==
    {r \in DOMAIN reservations :
        reservations[r].hotel_id = h /\ reservations[r].status = "active"}

ActiveOfCustomer(c) ==
    {r \in DOMAIN reservations :
        reservations[r].customer_id = c /\ reservations[r].status = "active"}

\* C26: delete neither blocks nor cascades: Hotel.delete and Customer.delete
\* return True for a stored hotel or customer that active reservations
\* reference, and a delete step leaves the reservation file as it was, so
\* those reservations stay stored with status active.
C26_DeleteDoesNotCascade ==
    [][/\ \A h \in DOMAIN hotels :
            ActiveOfHotel(h) # {} => Hotel_delete(hotels_file, h).ret = "True"
       /\ \A c \in DOMAIN customers :
            ActiveOfCustomer(c) # {} =>
                Customer_delete(customers_file, c).ret = "True"
       /\ (DelHotelDeleteStep \/ DelCustomerDeleteStep) =>
            /\ reservations_file' = reservations_file
            /\ \A h \in HotelIds : ActiveOfHotel(h)' = ActiveOfHotel(h)
            /\ \A c \in DelCustomerIds : ActiveOfCustomer(c)' = ActiveOfCustomer(c)
      ]_vars

\* the deletes have acted: an active reservation names a hotel that is no
\* longer stored, and an active reservation names a customer that is no
\* longer stored
C26_Witness ==
    /\ \E h \in HotelIds \ DOMAIN hotels : ActiveOfHotel(h) # {}
    /\ \E c \in DelCustomerIds \ DOMAIN customers : ActiveOfCustomer(c) # {}
----------------------------------------------------------------------------
\* C28: Customer.create, Customer.delete and Customer.modify leave the hotel
\* file and the reservation file as they were. The customer store reaches
\* another entity only through Reservation.create: it fails, writing
\* nothing, when the customer_id is not stored, and for a stored customer
\* its outcome is the same whatever the customer's fields are;
\* Reservation.cancel has the same outcome with no customer stored at all.
C28_CustomerOperationsFrame ==
    [][/\ (DelCustomerCreateStep \/ DelCustomerModifyStep \/ DelCustomerDeleteStep)
            => UNCHANGED <<hotels_file, reservations_file>>
       /\ \A r \in ReservationIds, c \in DelCustomerIds, h \in HotelIds :
            LET x == Reservation_create(hotels_file, customers_file,
                                        reservations_file, r, c, h, D10, D15)
            IN /\ c \notin DOMAIN customers =>
                    /\ x.ret = "None"
                    /\ x.hotels_file = hotels_file
                    /\ x.reservations_file = reservations_file
               /\ x.customers_file = customers_file
               /\ c \in DOMAIN customers =>
                    \A n \in Names :
                        LET y == Reservation_create(
                                   hotels_file,
                                   Customer_modify(customers_file, c,
                                                   [k \in {"name"} |-> n]).file,
                                   reservations_file, r, c, h, D10, D15)
                        IN /\ y.ret = x.ret
                           /\ y.hotels_file = x.hotels_file
                           /\ y.reservations_file = x.reservations_file
       /\ \A r \in ReservationIds :
            LET x == Reservation_cancel(hotels_file, customers_file,
                                        reservations_file, r)
                y == Reservation_cancel(hotels_file, EmptyMap,
                                        reservations_file, r)
            IN /\ y.ret = x.ret
               /\ y.hotels_file = x.hotels_file
               /\ y.reservations_file = x.reservations_file
               /\ x.customers_file = customers_file
      ]_vars

\* a customer operation has acted next to stored hotels and reservations:
\* one customer was deleted while its reservation is active, the other is
\* stored under a changed name, and a reservation for the deleted customer
\* would fail although the hotel has a free room
C28_Witness ==
    /\ "C1" \notin DOMAIN customers
    /\ ActiveOfCustomer("C1") # {}
    /\ "C2" \in DOMAIN customers
    /\ customers["C2"].name = "b"
    /\ \E h \in DOMAIN hotels, r \in ReservationIds \ DOMAIN reservations :
          /\ hotels[h].available_rooms > 0
          /\ Reservation_create(hotels_file, customers_file, reservations_file,
                                r, "C1", h, D10, D15).ret = "None"
          /\ Reservation_create(hotels_file, customers_file, reservations_file,
                                r, "C2", h, D10, D15).ret = "obj"
----------------------------------------------------------------------------
\* a step keeps every stored reservation: each id stored before is stored
\* after, with the same record or with the record whose status went from
\* active to cancelled and whose other fields are the same
KeepsReservations ==
    \/ reservations_file' = reservations_file
    \/ LET after == ReservationLoadAll(reservations_file') IN
       \A r \in DOMAIN reservations :
           /\ r \in DOMAIN after
           /\ \/ after[r] = reservations[r]
              \/ /\ reservations[r].status = "active"
                 /\ after[r] = [reservations[r] EXCEPT !.status = "cancelled"]

\* C27: reservations are never physically deleted: a reservation id that is
\* in the reservation store is in it after every public operation, and its
\* record changes only by its status going from active to cancelled.
C27_NeverDeleted == [][KeepsReservations]_vars

\* both reservations are stored and cancelled, their hotel and their
\* customer were deleted afterwards, and no operation is left that could
\* bring one of the ids back to active
C27_Witness ==
    /\ DOMAIN reservations = ReservationIds
    /\ \A r \in ReservationIds : reservations[r].status = "cancelled"
    /\ DOMAIN hotels = {}
    /\ DOMAIN customers = {}
----------------------------------------------------------------------------
\* no process is inside an operation
Quiet == \A p \in Procs : ~Busy(p)

\* an operation returned success and what it wrote is no longer stored
LostUpdate ==
    \E u \in procs.committed :
        \/ ~InList(hotels[u.hid].reservations, u.rid)
        \/ u.op = "create" /\ u.rid \notin DOMAIN reservations

DirectReserves == {u \in procs.committed : u.op = "reserve"}

InventoryEquation(h) ==
    hotels[h].available_rooms + Cardinality(ActiveOfHotel(h)) = hotels[h].total_rooms

\* C30: when each operation of the two processes runs to completion before
\* the next one starts, no update is lost: between operations every
\* operation that returned success has what it wrote in the store, and
\* where the operations were Reservation.create calls available_rooms plus
\* the active reservations of the hotel is total_rooms. (That interleaved
\* steps reach a lost update with the equation broken is C30_Witness.)
C30_NoLostUpdateWhenSequential ==
    (Quiet /\ ~procs.overlapped) =>
        /\ ~LostUpdate
        /\ DirectReserves = {} => \A h \in DOMAIN hotels : InventoryEquation(h)

\* two Reservation.create calls were interleaved and both returned: one
\* reservation that was created is not stored, and the hotel has fewer free
\* rooms than total_rooms less its active reservations
C30_Witness ==
    /\ Quiet
    /\ procs.overlapped
    /\ DirectReserves = {}
    /\ \E u \in procs.committed : u.rid \notin DOMAIN reservations
    /\ LostUpdate
    /\ ~InventoryEquation("H1")
----------------------------------------------------------------------------
\* Reservation.create would pass its tests and take a room for r at h
CreateTakesRoom(r, c, h) ==
    /\ validate_dates(D10, D15)
    /\ r \notin DOMAIN reservations
    /\ c \in DOMAIN customers
    /\ Hotel_reserve_room(hotels_file, h, r).ret = "True"

\* C31: Reservation.create does not undo the room when its own save fails:
\* when Hotel.reserve_room succeeds and the write of the reservation file
\* fails, the hotel file is the one reserve_room wrote (one room less, the
\* id recorded), the reservation file is as it was, without a record for
\* the id, and the call returns the reservation object.
C31_NoRollback ==
    \A r \in ReservationIds, c \in CustomerIds, h \in HotelIds :
        CreateTakesRoom(r, c, h) =>
            LET x == Reservation_create_io(Io({"rw"}), hotels_file, customers_file,
                                           reservations_file, r, c, h, D10, D15)
                after == HotelLoadAll(x.hotels_file)
            IN /\ x.ret = "obj"
               /\ x.hotels_file = Hotel_reserve_room(hotels_file, h, r).file
               /\ after[h].available_rooms = hotels[h].available_rooms - 1
               /\ after[h].reservations = Append(hotels[h].reservations, r)
               /\ x.reservations_file = reservations_file
               /\ r \notin DOMAIN ReservationLoadAll(x.reservations_file)
               /\ x.customers_file = customers_file

\* the divergence is there: a hotel records an id, with a room taken, for
\* which no reservation is stored, next to a stored reservation; and a
\* further create whose save fails would take another room
C31_Witness ==
    \E h \in DOMAIN hotels, r \in ReservationIds, q \in ReservationIds :
        /\ InList(hotels[h].reservations, r)
        /\ r \notin DOMAIN reservations
        /\ q \in DOMAIN reservations
        /\ hotels[h].available_rooms < hotels[h].total_rooms
        /\ \E g \in DOMAIN hotels : CreateTakesRoom(r, "C1", g)
----------------------------------------------------------------------------
----------------------------------------------------------------------------
\* the ids recorded in the reservations list of hotel h
LedgerIdsOf(h) ==
    {hotels[h].reservations[i] : i \in 1..Len(hotels[h].reservations)}

\* C33: with Hotel.create, Customer.create, modify and delete,
\* Reservation.create and Reservation.cancel as the only operations, the
\* ids in the reservations list of every stored hotel are exactly the ids
\* of the stored reservations that name the hotel and are active.
C33_LedgerAgreesWithStore ==
    \A h \in DOMAIN hotels : LedgerIdsOf(h) = ActiveOfHotel(h)

\* a hotel with one active reservation in its list and one cancelled
\* reservation that left it, after the customer was deleted
C33_Witness ==
    \E h \in DOMAIN hotels, r \in DOMAIN reservations, q \in DOMAIN reservations :
        /\ reservations[r].hotel_id = h /\ reservations[r].status = "active"
        /\ reservations[q].hotel_id = h /\ reservations[q].status = "cancelled"
        /\ LedgerIdsOf(h) = {r}
        /\ DOMAIN customers = {}
----------------------------------------------------------------------------
\* C34: after any sequence of the public operations, every stored hotel has
\* at most total_rooms stored reservations that name it and are active.
\* (Stated for the hotels whose total_rooms is not negative, so that a
\* hotel created with a negative total does not count as overbooked.)
C34_NoOverbooking ==
    \A h \in DOMAIN hotels :
        hotels[h].total_rooms >= 0 =>
            Cardinality(ActiveOfHotel(h)) <= hotels[h].total_rooms
----------------------------------------------------------------------------
\* the keys of the records in a file that load_all skips
SkippedHotels == DOMAIN hotels_file \ DOMAIN hotels

SkippedCustomers == DOMAIN customers_file \ DOMAIN customers

SkippedReservations == DOMAIN reservations_file \ DOMAIN reservations

\* a successful operation applied in the state: the file it wrote and the
\* key it created, if it is a create
Wrote(file, made) == [file |-> file, made |-> made]

HotelStoreWrites ==
    {Wrote(Hotel_create(hotels_file, h, "Plaza", "LA", "4.5", MaxRooms).file, {h}) :
        h \in {k \in HotelIds :
                 Hotel_create(hotels_file, k, "Plaza", "LA", "4.5", MaxRooms).ret = "obj"}}
    \cup {Wrote(Hotel_delete(hotels_file, h).file, {}) :
            h \in {k \in HotelIds : Hotel_delete(hotels_file, k).ret = "True"}}
    \cup {Wrote(Hotel_modify(hotels_file, hk[1], hk[2]).file, {}) :
            hk \in {p \in HotelIds \X HotelKwargs :
                      Hotel_modify(hotels_file, p[1], p[2]).ret = "True"}}
    \cup {Wrote(Hotel_reserve_room(hotels_file, hr[1], hr[2]).file, {}) :
            hr \in {p \in HotelIds \X ReservationIds :
                      Hotel_reserve_room(hotels_file, p[1], p[2]).ret = "True"}}
    \cup {Wrote(Hotel_cancel_reservation(hotels_file, hr[1], hr[2]).file, {}) :
            hr \in {p \in HotelIds \X ReservationIds :
                      Hotel_cancel_reservation(hotels_file, p[1], p[2]).ret = "True"}}
    \cup {Wrote(ResCreate(rh[1], "C1", rh[2], D10, D15).hotels_file, {}) :
            rh \in {p \in ReservationIds \X HotelIds :
                      ResCreate(p[1], "C1", p[2], D10, D15).ret = "obj"}}

CustomerStoreWrites ==
    {Wrote(Customer_create(customers_file, c, "b", "f@x", "555").file, {c}) :
        c \in {k \in CustomerIds :
                 Customer_create(customers_file, k, "b", "f@x", "555").ret = "obj"}}
    \cup {Wrote(Customer_delete(customers_file, c).file, {}) :
            c \in {k \in CustomerIds : Customer_delete(customers_file, k).ret = "True"}}
    \cup {Wrote(Customer_modify(customers_file, ck[1], ck[2]).file, {}) :
            ck \in {p \in CustomerIds \X CustomerKwargs :
                      Customer_modify(customers_file, p[1], p[2]).ret = "True"}}

ReservationStoreWrites ==
    {Wrote(ResCreate(rh[1], "C1", rh[2], D10, D15).reservations_file, {rh[1]}) :
        rh \in {p \in ReservationIds \X HotelIds :
                  ResCreate(p[1], "C1", p[2], D10, D15).ret = "obj"}}
    \cup {Wrote(ResCancel(r).reservations_file, {}) :
            r \in {k \in ReservationIds : ResCancel(k).ret = "True"}}

====
